---- MODULE Spec2Model ----
(***************************************************************************)
(* HOPR relay hop and payment-channel connector.                           *)
(*                                                                         *)
(* Part I models Packet.forwardTransform and Packet.hasTag (the packet     *)
(* pipeline of one relay hop) as the chain of callbacks the source builds  *)
(* with neo-async's waterfall: every asynchronous call (db.get, db.put,    *)
(* pubKeyToPeerId, getChannel, setChannel, transfer) is a suspension       *)
(* point, and one action of the model is the code that runs from one       *)
(* callback to the next asynchronous call.                                 *)
(*                                                                         *)
(* Part II models Channel.testAndSetNonce of the chain connector, whose    *)
(* two awaits (db.get, db.put) are its suspension points.                  *)
(*                                                                         *)
(* The key-value store is taken to be reliable: a read or a write takes    *)
(* effect atomically at the moment its callback runs, and the only error   *)
(* it reports is notFound.                                                 *)
(***************************************************************************)
EXTENDS Integers, FiniteSets, Sequences, TLC

(***************************************************************************)
(* Bounds of the model.                                                    *)
(***************************************************************************)
\* number of forwardTransform calls (one task per call)
NumTasks == 2
\* largest transaction index a packet may carry
MaxIndex == 2
\* largest channel value a transaction may carry
MaxValue == 3
\* number of testAndSetNonce calls
NumCallers == 3
\* distinct signatures handed to testAndSetNonce
NumSignatures == 2
\* longest path (relays and destination) createPacket is called with
MaxPathLen == 3
\* largest balance a channel is asked to be created with
MaxBalance == 2
\* tokens each account holds before any channel is funded
AccountFunds == 2
\* Channel objects of a party whose constructor has a completion outstanding
MaxChannels == 2
\* onceOpen subscriptions, of both parties, that have not run their onOpen
MaxListeners == 2
\* number of steps the clock makes
MaxTicks == 3
\* timestamp of the last block mined
MaxBlockTime == 3

\* Part VIII: the steps of the timers' clock and the messages of a stream
MaxRtcTicks == 2

MaxMsgs == 1

\* Part IX: the calls of contractCall
NumContractCalls == 3

\* Part X: the channels with a restore transaction and the amount a close returns
NumClosable == 3

MaxAmount == 1

\* Part VIII: the calls of close on one connection
MaxCloseCalls == 2

(***************************************************************************)
(* Program constants.                                                      *)
(***************************************************************************)
RELAY_FEE == 1
CHANNEL_STATE_UNINITIALIZED == 0
CHANNEL_STATE_FUNDED == 3
CHANNEL_STATE_WITHDRAWABLE == 4
SETTLEMENT_TIMEOUT == 40000

\* const WEBRTC_UPGRADE_TIMEOUT = durations.seconds(7), in milliseconds
WEBRTC_UPGRADE_TIMEOUT == 7000

Tasks == 1..NumTasks
\* derived secrets, one per packet header: each call may bring another packet
Secrets == 1..NumTasks
Callers == 1..NumCallers
Signatures == 1..NumSignatures

\* On-chain addresses.  The hop itself, and the previous hops it has (or
\* could have) a payment channel with: one with a smaller and one with a
\* larger address than the hop's own, so that the hop is party B of the
\* first channel and party A of the second.
SelfAddress == 2
Senders == {1, 3}

NoRecord == [currentValue |-> -1, index |-> -1]

VARIABLES
    \* ---- Part I: the relay hop ----
    tagStore,     \* node.db keys "packet-tag-" || tag
    pendingTx,    \* node.pendingTransactions, keyed by hashedKeyHalf
    chanRecord,   \* node.paymentChannels records {currentValue, index} by channel
    chainState,   \* on-chain state of each channel
    task,         \* the forwardTransform calls: position and local variables
    \* ---- Part II: the connector's nonce store ----
    nonceStore,   \* coreConnector.db keys Nonce(channelId, hash(signature))
    caller,       \* the testAndSetNonce calls: position and local variables
    \* ---- Part III: one packet along its path ----
    pathLen,      \* number of peers of the path handed to createPacket
    prevOf,       \* per peer of the path, the address its previous hop has for it
    hopRecord,    \* per peer of the path, its record of the channel to its previous hop
    pkt,          \* the packet: where it is and the transaction embedded in it
    \* ---- Part IV: the connector's ChannelFactory ----
    chain,        \* hoprChannels.channels(channelId): status, deposit, partyABalance
    tokens,       \* hoprToken.balanceOf each party
    localChannel, \* per party, whether db holds dbKeys.Channel(counterparty)
    statusCheck,  \* per party, the status reads of Channel constructors and the db.del of their onClose that are pending
    opening,      \* per party, the onceOpen listeners of handleOpeningRequest: subscribed, returning, resolved
    fcall,        \* the create or isOpen call in progress, or the last one
    handler,      \* the responder's handleOpeningRequest
    createdBy,    \* the parties whose create has returned a channel
    concurrent,   \* an isOpen call that runs beside the call in progress
    \* ---- Part V: PaymentChannel.closeChannel ----
    channelState, \* contract.methods.channels(channelId).state
    closeRecord,  \* node.db: Index(channelId) and the index of the last transaction
    clock,        \* Date.now()
    eventPending, \* a ClosedChannel log is on its way to the node
    closedAt,     \* when emitClosed ran, or -1
    submitted,    \* contractCall was handed the contract's closeChannel
    asked,        \* askCounterpartyToCloseChannel: not called, where it is, or how it ended
    closing,      \* the closeChannel call: position, timer, `closed` handler
    settle,       \* the submitSettlementTransaction call
    \* ---- Part VI: PaymentChannel.withdraw and the node's store ----
    wchain,       \* contract.methods.channels(channelId): state, settleTimestamp
    blockTime,    \* timestamp of the latest block
    subscriptions,        \* keys of this.subscriptions
    closingSubscriptions, \* keys of this.closingSubscriptions
    settleTimestamps,     \* this.settleTimestamps, by key
    wd,           \* the withdraw call: position and local variables
    store,        \* keys of node.db
    sop,          \* the getLastTransaction, submitSettlementTransaction or deleteChannel call
    \* ---- Part VII: Channel.initiateSettlement ----
    schain,       \* hoprChannels.channels(channelId): status, closureTime
    sblock,       \* timestamp of the latest block
    srecord,      \* whether db holds dbKeys.Channel(counterparty)
    sconstructor, \* whether the constructor's status read is pending, and the db.del of its onClose that are
    slisteners,   \* the onceClosed subscriptions that are set up
    sevents,      \* the subscriptions a ClosedChannel log is on its way to
    byCounterparty, \* what the counterparty has done since the start
    ist,          \* the initiateSettlement call
    \* ---- Part VIII: WebRTCConnection ----
    rtc,          \* the connection's fields, its timer and the callback of _switchPromise
    peer,         \* the WebRTC channel (SimplePeer) and the setImmediate callbacks
    rtcClock,     \* the time of the timers
    gen,          \* the generators of sink and source: position and local variables
    inp,          \* what is left of the caller's stream, of conn.source and of the channel
    outp,         \* what each generator has yielded, and through which connection
    rtcClose,     \* _destroyed, the calls of close and what they did to the two connections
    \* ---- Part IX: PaymentChannel.contractCall ----
    thisNonce,    \* this.nonce
    ccall,        \* the contractCall calls: position and the nonce sent
    sent,         \* the nonces handed to sendTransaction, in order
    \* ---- Part X: PaymentChannel.closeChannels ----
    restoreKeys,  \* the channels with a key RestoreTransaction(channelId) in node.db
    cls,          \* the closeChannels call: position, the array `promises`, the result
    closes        \* per channel, the promise of its closeChannel call

pktVars == <<tagStore, pendingTx, chanRecord, chainState, task>>
nonceVars == <<nonceStore, caller>>
pathVars == <<pathLen, prevOf, hopRecord, pkt>>
facVars == <<chain, tokens, localChannel, statusCheck, opening, fcall, handler, createdBy>>
closeVars == <<channelState, closeRecord, clock, eventPending, closedAt, submitted,
               asked, closing, settle>>
wdVars == <<wchain, blockTime, subscriptions, closingSubscriptions, settleTimestamps,
            wd, store, sop>>
setVars == <<schain, sblock, srecord, sconstructor, slisteners, sevents, byCounterparty,
            ist>>
rtcVars == <<rtc, peer, rtcClock, gen, inp, outp>>
ccVars == <<thisNonce, ccall, sent>>
clsVars == <<restoreKeys, cls, closes>>
concVars == <<concurrent>>
rtcCloseVars == <<rtcClose>>
vars == <<pktVars, nonceVars, pathVars, facVars, closeVars, wdVars, setVars, rtcVars,
         ccVars, clsVars, concVars, rtcCloseVars>>

\* what the actions of one part leave alone
notPkt == <<nonceVars, pathVars, facVars, closeVars, wdVars, setVars, rtcVars, ccVars, clsVars, concVars, rtcCloseVars>>
notNonce == <<pktVars, pathVars, facVars, closeVars, wdVars, setVars, rtcVars, ccVars, clsVars, concVars, rtcCloseVars>>
notPath == <<pktVars, nonceVars, facVars, closeVars, wdVars, setVars, rtcVars, ccVars, clsVars, concVars, rtcCloseVars>>
notFac == <<pktVars, nonceVars, pathVars, closeVars, wdVars, setVars, rtcVars, ccVars, clsVars, concVars, rtcCloseVars>>
notClose == <<pktVars, nonceVars, pathVars, facVars, wdVars, setVars, rtcVars, ccVars, clsVars, concVars, rtcCloseVars>>
notWd == <<pktVars, nonceVars, pathVars, facVars, closeVars, setVars, rtcVars, ccVars, clsVars, concVars, rtcCloseVars>>
notSet == <<pktVars, nonceVars, pathVars, facVars, closeVars, wdVars, rtcVars, ccVars, clsVars, concVars, rtcCloseVars>>
notRtc == <<pktVars, nonceVars, pathVars, facVars, closeVars, wdVars, setVars, ccVars, clsVars, concVars, rtcCloseVars>>
notCc == <<pktVars, nonceVars, pathVars, facVars, closeVars, wdVars, setVars, rtcVars, clsVars, concVars, rtcCloseVars>>
notCls == <<pktVars, nonceVars, pathVars, facVars, closeVars, wdVars, setVars, rtcVars, ccVars, concVars, rtcCloseVars>>
\* what the concurrent isOpen leaves alone besides the factory's own state
notConc == <<pktVars, nonceVars, pathVars, closeVars, wdVars, setVars, rtcVars, ccVars, clsVars, rtcCloseVars>>
\* what close leaves alone besides the connection's own state
notRtcClose == <<pktVars, nonceVars, pathVars, facVars, closeVars, wdVars, setVars, ccVars, clsVars, concVars>>

(***************************************************************************)
(* Part I.  Packet.forwardTransform                                        *)
(***************************************************************************)

\* utils.isPartyA: the party with the smaller address is party A
isPartyA(self, other) == self < other

\* utils.getId(a, b): the channel id is the hash of the ordered pair, hence
\* the same for both orders of the arguments
getId(a, b) == IF isPartyA(a, b) THEN <<a, b>> ELSE <<b, a>>

ChannelIds == {getId(SelfAddress, s) : s \in Senders}

\* Header.deriveTagParameters(derivedSecret)
deriveTagParameters(secret) == <<"packet-tag-", secret>>

\* header.hashedKeyHalf, derived from the same secret by extractHeaderInformation
hashedKeyHalf(secret) == <<"hashedKeyHalf", secret>>

\* getEmbeddedMoney with the two sides exchanged: party A's difference is
\* taken as party B's.
getEmbeddedMoney_sidesExchanged(txValue, counterparty, currentValue) ==
    IF isPartyA(SelfAddress, counterparty)
    THEN currentValue - txValue
    ELSE txValue - currentValue

\* PaymentChannel.getEmbeddedMoney(receivedTx, counterparty, currentValue)
getEmbeddedMoney(txValue, counterparty, currentValue) ==
    IF isPartyA(SelfAddress, counterparty)
    THEN txValue - currentValue
    ELSE currentValue - txValue

\* hasTag with no rejection of a tag that is found: the found branch reports
\* `false` like the branch that has just inserted the tag.
hasTagGet_foundReportsFalse(found) == "put"

\* The callback of db.get in hasTag, err being null (found) or notFound:
\*   if (err && !err.notFound) cb(err)
\*   else if (err.notFound)    db.put(key, '', ...)
\*   else                      cb(null, err.notFound)
\* With the key found err is null, and evaluating err.notFound in the second
\* condition throws a TypeError before the last branch is reached.
hasTagGet(found) == IF found THEN "TypeError" ELSE "put"

\* Second function of the waterfall, up to the asynchronous pubKeyToPeerId.
checkPacket(alreadyReceived, macOk) ==
    IF alreadyReceived THEN "General error."
    ELSE IF ~macOk THEN "General error."
    ELSE "ok"

\* The validation with the index compared by "less than" only: an index that
\* does not exceed the stored one by exactly one is let through.
checkTransaction_indexNotChecked(record, received, txIndex) ==
    IF record = NoRecord THEN "TypeError"
    ELSE IF received < RELAY_FEE THEN "Bad transaction."
    ELSE IF record.index + 1 < txIndex THEN "General error."
    ELSE "ok"

\* The validation with the fee compared by lte instead of lt against zero: a
\* transaction that pays less than the relay fee is let through.
checkTransaction_feeNotChecked(record, received, txIndex) ==
    IF record = NoRecord THEN "TypeError"
    ELSE IF received < 0 THEN "Bad transaction."
    ELSE IF record.index + 1 # txIndex THEN "General error."
    ELSE "ok"

\* Fourth function of the waterfall: the record check, the fee check and the
\* index check, in the order of the code.  Without a record getChannel calls
\* back with no value, the waterfall hands its callback in as `record` and
\* cb is undefined: cb(Error('General error.')) throws a TypeError.
checkTransaction(record, received, txIndex) ==
    IF record = NoRecord THEN "TypeError"
    ELSE IF received < RELAY_FEE THEN "Bad transaction."
    ELSE IF record.index + 1 # txIndex THEN "General error."
    ELSE "ok"

\* forwardTransform with the relay fee not deducted: the hop passes on all
\* it has received.
forwardedFee_feeNotDeducted(receivedMoney) == receivedMoney

\* forwardTransform: forwardedFee = receivedMoney.isub(new BN(RELAY_FEE, 10))
forwardedFee(receivedMoney) == receivedMoney - RELAY_FEE

IdleTask ==
    [pc |-> "idle", secret |-> 0, passedTag |-> FALSE, sender |-> 0,
     txIndex |-> -1, txValue |-> -1, receivedMoney |-> 0, forwardedFee |-> -1,
     at |-> "none", err |-> "none"]

\* The final callback of the waterfall on an error: if (err) throw err.  The
\* exception ends the call and the caller's cb is never invoked.  Of a call
\* that has ended the model keeps which packet it was for, whether it passed
\* the replay guard, the place of the throw and the error.
Throw(t, where, e) ==
    [IdleTask EXCEPT !.pc = "threw", !.at = where, !.err = e,
                     !.secret = task[t].secret, !.passedTag = task[t].passedTag]

\* The final callback of the waterfall without an error: cb(null, this).  Of
\* a call that has returned a packet the model keeps, besides, the channel
\* and the index of the embedded transaction it accepted.
Return(t, how) ==
    [IdleTask EXCEPT !.pc = how, !.secret = task[t].secret,
                     !.passedTag = task[t].passedTag, !.sender = task[t].sender,
                     !.txIndex = task[t].txIndex]

InFlight(t) == task[t].pc \notin {"idle", "threw", "forwarded", "delivered"}

\* What an open channel is funded with (its balance): less than the largest
\* value a transaction may carry, as a transaction may claim more than the
\* channel holds.
ChannelBalance == MaxValue - 1

\* The value a freshly opened channel starts from: the value is party A's
\* share of the balance; transfers to party A raise it, transfers to party B
\* lower it.
InitialValue(sender) == IF isPartyA(SelfAddress, sender) THEN 0 ELSE ChannelBalance

OpenRecord(sender) == [currentValue |-> InitialValue(sender), index |-> 0]

\* Each channel is either not opened (no record, uninitialised on-chain) or
\* opened and funded with no transfer made yet.
PktInit ==
    /\ tagStore = {}
    /\ pendingTx = {}
    /\ \E open \in SUBSET Senders :
          /\ chanRecord = [c \in ChannelIds |->
                IF \E s \in open : c = getId(SelfAddress, s)
                THEN OpenRecord(CHOOSE s \in open : c = getId(SelfAddress, s))
                ELSE NoRecord]
          /\ chainState = [c \in ChannelIds |->
                IF \E s \in open : c = getId(SelfAddress, s)
                THEN CHANNEL_STATE_FUNDED
                ELSE CHANNEL_STATE_UNINITIALIZED]
    /\ task = [t \in Tasks |-> IdleTask]

PktIdle ==
    /\ tagStore = {}
    /\ pendingTx = {}
    /\ chanRecord = [c \in ChannelIds |-> NoRecord]
    /\ chainState = [c \in ChannelIds |-> CHANNEL_STATE_UNINITIALIZED]
    /\ task = [t \in Tasks |-> IdleTask]

\* paymentChannels.getChannel(channelId, cb): the record, or NoRecord when
\* there is none (cb is then called without a record, and the next function
\* of the waterfall finds a function in its place).
getChannel(channelId) == chanRecord[channelId]

\* paymentChannels.setChannel({currentValue, index}, channelId, cb): the
\* store with the record of channelId replaced.
setChannel(record, channelId) == [chanRecord EXCEPT ![channelId] = record]

\* pendingTransactions.addEncryptedTransaction(hashedKeyHalf, ...): the
\* pending transactions with one registered under hashedKeyHalf.
addEncryptedTransaction(key) == pendingTx \cup {key}

\* forwardTransform(node, cb) is called with a packet whose header yields
\* `secret`: deriveSecret, then hasTag issues db.get(key).
forwardTransform(t) ==
    /\ task[t].pc = "idle"
    /\ \E secret \in Secrets :
          task' = [task EXCEPT ![t] = [IdleTask EXCEPT !.pc = "hasTag.get", !.secret = secret]]
    /\ UNCHANGED <<tagStore, pendingTx, chanRecord, chainState, notPkt>>

\* Callback of db.get in hasTag.
hasTag_get(t) ==
    /\ task[t].pc = "hasTag.get"
    /\ LET outcome == hasTagGet(deriveTagParameters(task[t].secret) \in tagStore)
       IN  task' = [task EXCEPT ![t] =
                IF outcome = "put" THEN [@ EXCEPT !.pc = "hasTag.put"]
                ELSE Throw(t, "hasTag", outcome)]
    /\ UNCHANGED <<tagStore, pendingTx, chanRecord, chainState, notPkt>>

\* Callback of db.put in hasTag: cb(err, false), which runs the second
\* function of the waterfall: header.verify(), extractHeaderInformation,
\* challenge.getCounterparty, getId, and the call of pubKeyToPeerId.
hasTag_put(t) ==
    /\ task[t].pc = "hasTag.put"
    /\ tagStore' = tagStore \cup {deriveTagParameters(task[t].secret)}
    /\ \E macOk \in BOOLEAN, sender \in Senders :
          LET res == checkPacket(FALSE, macOk)
          IN  task' = [task EXCEPT ![t] =
                IF res = "ok"
                THEN [@ EXCEPT !.pc = "pubKeyToPeerId", !.passedTag = TRUE,
                               !.sender = sender]
                ELSE [Throw(t, "verify", res) EXCEPT !.passedTag = TRUE]]
    /\ UNCHANGED <<pendingTx, chanRecord, chainState, notPkt>>

\* Callback of pubKeyToPeerId: third function of the waterfall,
\* addEncryptedTransaction and the call of getChannel.
pubKeyToPeerId_cb(t) ==
    /\ task[t].pc = "pubKeyToPeerId"
    /\ pendingTx' = addEncryptedTransaction(hashedKeyHalf(task[t].secret))
    /\ task' = [task EXCEPT ![t].pc = "getChannel"]
    /\ UNCHANGED <<tagStore, chanRecord, chainState, notPkt>>

\* Callback of getChannel: fourth function of the waterfall, which checks
\* the embedded transaction against the record read and calls setChannel.
getChannel_cb(t) ==
    /\ task[t].pc = "getChannel"
    /\ \E txIndex \in 0..MaxIndex, txValue \in 0..MaxValue :
          LET record == getChannel(getId(SelfAddress, task[t].sender))
              received == getEmbeddedMoney(txValue, task[t].sender, record.currentValue)
              res == checkTransaction(record, received, txIndex)
          IN  task' = [task EXCEPT ![t] =
                IF res = "ok"
                THEN [@ EXCEPT !.pc = "setChannel", !.txIndex = txIndex,
                               !.txValue = txValue, !.receivedMoney = received]
                ELSE Throw(t, "getChannel", res)]
    /\ UNCHANGED <<tagStore, pendingTx, chanRecord, chainState, notPkt>>

\* Callback of setChannel: the record is written; fifth function of the
\* waterfall: the destination returns the packet, any other hop asks the
\* payment-channel module for the transfer to the next hop.
setChannel_cb(t) ==
    /\ task[t].pc = "setChannel"
    /\ chanRecord' = setChannel([currentValue |-> task[t].txValue,
                                 index |-> task[t].txIndex],
                                getId(SelfAddress, task[t].sender))
    /\ \E terminal \in BOOLEAN :
          task' = [task EXCEPT ![t] =
                IF terminal THEN Return(t, "delivered")
                ELSE [@ EXCEPT !.pc = "transfer",
                               !.forwardedFee = forwardedFee(task[t].receivedMoney)]]
    /\ UNCHANGED <<tagStore, pendingTx, chainState, notPkt>>

\* Callback of paymentChannels.transfer.
transfer_cb(t) ==
    /\ task[t].pc = "transfer"
    /\ \E failed \in BOOLEAN :
          task' = [task EXCEPT ![t] =
                IF failed THEN Throw(t, "transfer", "transfer") ELSE Return(t, "forwarded")]
    /\ UNCHANGED <<tagStore, pendingTx, chanRecord, chainState, notPkt>>

\* The counterparty settles a funded channel on-chain (the contract's
\* closeChannel): the channel awaits its settle timestamp.  The hop's local
\* record stays until the hop itself closes or withdraws.
settledOnChain(c) ==
    /\ chainState[c] = CHANNEL_STATE_FUNDED
    /\ chainState' = [chainState EXCEPT ![c] = CHANNEL_STATE_WITHDRAWABLE]
    /\ UNCHANGED <<tagStore, pendingTx, chanRecord, task, notPkt>>

\* The counterparty withdraws from a settled channel (the contract's
\* withdraw): the channel is uninitialised on-chain again.
withdrawnOnChain(c) ==
    /\ chainState[c] = CHANNEL_STATE_WITHDRAWABLE
    /\ chainState' = [chainState EXCEPT ![c] = CHANNEL_STATE_UNINITIALIZED]
    /\ UNCHANGED <<tagStore, pendingTx, chanRecord, task, notPkt>>

(***************************************************************************)
(* Part II.  Channel.testAndSetNonce                                       *)
(***************************************************************************)

\* The connector's channels testAndSetNonce is called on.
NonceChannels == {1, 2}

\* utils.hash: collision-free on the signatures of the model
hash(signature) == <<"hash", signature>>

\* dbKeys.Nonce(channelId, nonce)
Nonce(channelId, nonce) == <<"nonce", channelId, nonce>>

\* testAndSetNonce with the final throw missing: a key that is found is
\* written again and the call returns.
testAndSetNonceGet_noThrow(found) == "put"

\* The outcome of `await db.get(key)` in testAndSetNonce: with the key absent
\* the catch block puts it, with the key present the call falls through to
\* the final throw.
testAndSetNonceGet(found) ==
    IF found THEN "Nonces must not be used twice." ELSE "put"

IdleCaller == [pc |-> "idle", channelId |-> 0, signature |-> 0, err |-> "none"]

CallerKey(c) == Nonce(caller[c].channelId, hash(caller[c].signature))

CallerInFlight(c) == caller[c].pc \in {"get", "put"}

NonceInit ==
    /\ nonceStore = {}
    /\ caller = [c \in Callers |-> IdleCaller]

NonceIdle ==
    /\ nonceStore = {}
    /\ caller = [c \in Callers |-> IdleCaller]

\* channel.testAndSetNonce(signature): channelId, hash, key, then db.get(key)
testAndSetNonce(c) ==
    /\ caller[c].pc = "idle"
    /\ \E ch \in NonceChannels, sig \in Signatures :
          caller' = [caller EXCEPT ![c] =
                [IdleCaller EXCEPT !.pc = "get", !.channelId = ch, !.signature = sig]]
    /\ UNCHANGED <<nonceStore, notNonce>>

\* db.get(key) settles.
testAndSetNonce_get(c) ==
    /\ caller[c].pc = "get"
    /\ LET outcome == testAndSetNonceGet(CallerKey(c) \in nonceStore)
       IN  caller' = [caller EXCEPT ![c] =
                IF outcome = "put" THEN [@ EXCEPT !.pc = "put"]
                ELSE [@ EXCEPT !.pc = "rejected", !.err = outcome]]
    /\ UNCHANGED <<nonceStore, notNonce>>

\* db.put(key, new Uint8Array()) settles; the call returns.
testAndSetNonce_put(c) ==
    /\ caller[c].pc = "put"
    /\ nonceStore' = nonceStore \cup {CallerKey(c)}
    /\ caller' = [caller EXCEPT ![c].pc = "resolved"]
    /\ UNCHANGED notNonce

(***************************************************************************)
(* Part III.  Packet.createPacket and the hops of one path                 *)
(*                                                                         *)
(* One packet travels a path of pathLen peers, the last of which is the    *)
(* destination.  Every peer runs forwardTransform; the calls follow one    *)
(* another, so each peer's checks are taken at the callbacks that read or  *)
(* write the channel record (getChannel, setChannel, transfer).  A peer    *)
(* sees its previous hop under one of the addresses of Senders, which      *)
(* fixes who is party A of the channel between the two.                    *)
(***************************************************************************)

Hops == 1..MaxPathLen

\* What every channel of the path is funded with: enough for the fees of
\* the longest path.
ChannelFunds == (MaxPathLen - 1) * RELAY_FEE

\* The record both ends of a channel start from: the value is party A's
\* share, so a receiver that is party A starts from 0 and a receiver that is
\* party B from the whole of the funds.
PathRecord(sender) ==
    [currentValue |-> IF isPartyA(SelfAddress, sender) THEN 0 ELSE ChannelFunds,
     index |-> 0]

\* createPacket: fee = (new BN(secrets.length - 1)).imul(new BN(RELAY_FEE))
createPacketFee(n) == (n - 1) * RELAY_FEE

\* paymentChannels.transfer(amount, to, cb): the transaction handed to cb,
\* built on the sender's record of the channel: the next index, and the
\* value moved by amount towards the receiver, whose previous hop is seen
\* by it as `sender`.
transfer(record, amount, sender) ==
    [index |-> record.index + 1,
     value |-> IF isPartyA(SelfAddress, sender)
               THEN record.currentValue + amount
               ELSE record.currentValue - amount]

NoTransaction == [index |-> -1, value |-> -1]

IdlePacket ==
    [pc |-> "idle", hop |-> 0, tx |-> NoTransaction, receivedMoney |-> -1,
     asked |-> -1, err |-> "none", cbCalls |-> 0, cbErr |-> "none",
     threw |-> "none"]

PathInit ==
    /\ pathLen = 0
    /\ prevOf \in [Hops -> Senders]
    /\ hopRecord = [h \in Hops |-> PathRecord(prevOf[h])]
    /\ pkt = IdlePacket

PathIdle ==
    /\ pathLen = 0
    /\ prevOf = [h \in Hops |-> 1]
    /\ hopRecord = [h \in Hops |-> PathRecord(1)]
    /\ pkt = IdlePacket

\* createPacket(node, msg, path, cb): the header is built and the fee for the
\* whole path is asked to be transferred to path[0].
createPacket(n) ==
    /\ pkt.pc = "idle"
    /\ pathLen' = n
    /\ pkt' = [IdlePacket EXCEPT !.pc = "createPacket.transfer", !.hop = 0,
                                 !.asked = createPacketFee(n)]
    /\ UNCHANGED <<prevOf, hopRecord, notPath>>

\* The callback of paymentChannels.transfer, called with an error and no
\* transaction.  In createPacket:
\*   if (err) cb(err)
\*   ... tx.encrypt(...)
\* the caller's cb is called with the error and the callback goes on to
\* tx.encrypt, which throws a TypeError as tx is undefined.  In
\* forwardTransform `if (err) cb(err)` calls the waterfall's callback, whose
\* final function is `if (err) throw err`: the caller's cb is not called.
transferFailed(stage, err) ==
    IF stage = "createPacket.transfer"
    THEN [cbCalls |-> 1, cbErr |-> err, threw |-> "TypeError"]
    ELSE [cbCalls |-> 0, cbErr |-> "none", threw |-> err]

\* Callback of paymentChannels.transfer in createPacket and in
\* forwardTransform: on an error the packet is not sent; otherwise the
\* transaction is embedded and the packet reaches the next peer.
pathTransfer_cb ==
    /\ pkt.pc \in {"createPacket.transfer", "transfer"}
    /\ \E failed \in BOOLEAN :
          pkt' = IF failed
                 THEN LET out == transferFailed(pkt.pc, "transfer")
                      IN  [pkt EXCEPT !.pc = "transfer failed", !.err = "transfer",
                                      !.cbCalls = out.cbCalls, !.cbErr = out.cbErr,
                                      !.threw = out.threw]
                 ELSE [IdlePacket EXCEPT
                          !.pc = "getChannel", !.hop = pkt.hop + 1,
                          !.tx = transfer(hopRecord[pkt.hop + 1], pkt.asked,
                                          prevOf[pkt.hop + 1])]
    /\ UNCHANGED <<pathLen, prevOf, hopRecord, notPath>>

\* Callback of getChannel at the peer the packet has reached: the fourth
\* function of the waterfall, as in getChannel_cb.
pathGetChannel_cb ==
    /\ pkt.pc = "getChannel"
    /\ LET record == hopRecord[pkt.hop]
           received == getEmbeddedMoney(pkt.tx.value, prevOf[pkt.hop], record.currentValue)
           res == checkTransaction(record, received, pkt.tx.index)
       IN  pkt' = IF res = "ok"
                  THEN [pkt EXCEPT !.pc = "setChannel", !.receivedMoney = received]
                  ELSE [pkt EXCEPT !.pc = "threw", !.receivedMoney = received,
                                   !.err = res]
    /\ UNCHANGED <<pathLen, prevOf, hopRecord, notPath>>

\* Callback of setChannel at that peer: the fifth function of the waterfall,
\* as in setChannel_cb; the destination is the last peer of the path.
pathSetChannel_cb ==
    /\ pkt.pc = "setChannel"
    /\ hopRecord' = [hopRecord EXCEPT ![pkt.hop] =
                        [currentValue |-> pkt.tx.value, index |-> pkt.tx.index]]
    /\ pkt' = IF pkt.hop = pathLen
              THEN [pkt EXCEPT !.pc = "delivered"]
              ELSE [pkt EXCEPT !.pc = "transfer",
                               !.asked = forwardedFee(pkt.receivedMoney)]
    /\ UNCHANGED <<pathLen, prevOf, notPath>>

(***************************************************************************)
(* Part IV.  ChannelFactory: isOpen, create, handleOpeningRequest          *)
(*                                                                         *)
(* Two parties and the one channel between them.  Each party runs the      *)
(* connector with its own db; the chain is shared.  The calls of create    *)
(* and isOpen follow one another; what runs beside them are the responder  *)
(* side of the opening handshake (handleOpeningRequest, called through the *)
(* initiator's sign callback), the callbacks of the chain's events and the *)
(* status read that every Channel constructor issues.  The part covers a   *)
(* channel up to a pending closure: the closure is never claimed, so no    *)
(* ClosedChannel event is emitted.                                         *)
(***************************************************************************)

Parties == {1, 2}

Counterparty(n) == 3 - n

\* The channel balances create is called with.
ChannelBalances ==
    UNION {{[balance |-> b, balance_a |-> a] : a \in 0..b} : b \in 1..MaxBalance}

\* create called without channelBalance and sign
NoBalance == [balance |-> -1, balance_a |-> -1]

\* isOpen, on-chain half: state === ChannelStatus.OPEN || state === ChannelStatus.PENDING
isOpenOnChain(status) == status \in {"OPEN", "PENDING"}

\* isOpen with the mismatch branches exchanged: a record without an open
\* channel raises the error, an open channel without a record is taken for
\* a closed one.
isOpenThen_branchesExchanged(onChain, offChain) ==
    IF onChain # offChain
    THEN IF onChain /\ ~offChain THEN "onClose" ELSE "throw"
    ELSE IF onChain /\ offChain THEN "true" ELSE "false"

\* isOpen with the record negated in what it returns: onChain && !offChain.
isOpenThen_recordNegated(onChain, offChain) ==
    IF onChain # offChain
    THEN IF ~onChain /\ offChain THEN "onClose" ELSE "throw"
    ELSE "false"

\* isOpen after Promise.all has settled:
\*   if (onChain != offChain) {
\*     if (!onChain && offChain) await onClose(...)  else throw Error(...)
\*   }
\*   return onChain && offChain
isOpenThen(onChain, offChain) ==
    IF onChain # offChain
    THEN IF ~onChain /\ offChain THEN "onClose" ELSE "throw"
    ELSE IF onChain /\ offChain THEN "true" ELSE "false"

\* create: the amount the initiator funds the channel with
createAmount(self, bal) ==
    IF isPartyA(self, Counterparty(self))
    THEN bal.balance_a
    ELSE bal.balance - bal.balance_a

\* handleOpeningRequest: the amount the responder funds the channel with
handleOpeningRequestAmount(self, bal) ==
    IF isPartyA(self, Counterparty(self))
    THEN bal.balance - bal.balance_a
    ELSE bal.balance_a

\* The accounts an OpenedChannel event can name: the two parties and one
\* account that is neither.
Accounts == Parties \cup {3}

\* onceOpen: the subscription's filter,
\*   opener: [self, counterparty], counterParty: [self, counterparty]
\* An event is handed to the listener when each of its two indexed values is
\* one of the listed ones.
OpenedChannelFilter(self, counterparty, opener, counterParty) ==
    /\ opener \in {self, counterparty}
    /\ counterParty \in {self, counterparty}

\* onceOpen whose listener resolves on every event it is handed.
onceOpenData_anyChannel(self, counterparty, opener, counterParty) ==
    "resolve"

\* onceOpen, the listener on 'data':
\*   _channelId = await getId(opener, counterParty)
\*   if (!u8aEquals(_channelId, channelId)) return
\*   return resolve(data.returnValues)
onceOpenData(self, counterparty, opener, counterParty) ==
    IF getId(opener, counterParty) # getId(self, counterparty)
    THEN "return"
    ELSE "resolve"

\* no listener of onceOpen
NoListener == [armed |-> 0, skipped |-> 0, fired |-> 0]

\* The listeners of party n, one per opening request handled, after the
\* contract has emitted OpenedChannel(opener, counterParty): every
\* subscribed listener the event is handed to resolves ("fired") or returns
\* without resolving ("skipped").  A listener stays subscribed while a call
\* of it for an event of another channel is about to return, and is called
\* anew for every event.
onceOpen(n, opener, counterParty) ==
    IF OpenedChannelFilter(n, Counterparty(n), opener, counterParty)
    THEN IF onceOpenData(n, Counterparty(n), opener, counterParty) = "resolve"
         THEN [armed |-> 0, skipped |-> 0,
               fired |-> opening[n].fired + opening[n].armed + opening[n].skipped]
         ELSE [armed |-> 0, skipped |-> opening[n].armed + opening[n].skipped,
               fired |-> opening[n].fired]
    ELSE opening[n]

\* the listeners of party n that have not run their onOpen
Listeners(n) == opening[n].armed + opening[n].skipped + opening[n].fired

\* The channels contract on the receipt of tokens sent with (funder,
\* counterparty): the deposit grows, party A's share grows by what party A
\* sends, and an uninitialised channel that holds a deposit is in funding.
fundChannel(funder, amount) ==
    [status |-> IF chain.status = "UNINITIALISED" /\ amount > 0
                THEN "FUNDING" ELSE chain.status,
     deposit |-> chain.deposit + amount,
     partyABalance |-> IF isPartyA(funder, Counterparty(funder))
                       THEN chain.partyABalance + amount
                       ELSE chain.partyABalance]

\* no status read of a constructor and no db.del of its onClose is pending
NoStatusCheck == [status |-> 0, onClose |-> 0]

\* the Channel objects of party n whose constructor has a completion pending
Channels(n) == statusCheck[n].status + statusCheck[n].onClose

IdleCall ==
    [pc |-> "idle", node |-> 0, op |-> "none", bal |-> NoBalance,
     openAtCall |-> FALSE, onChain |-> "none", offChain |-> "none",
     deposited |-> -1, result |-> "none", err |-> "none"]

IdleHandler == [pc |-> "idle", node |-> 0, bal |-> NoBalance, deposited |-> -1]

CallEnded == fcall.pc \in {"idle", "returned", "threw"}

FacThrow(e) == [fcall EXCEPT !.pc = "threw", !.err = e]

\* No channel on-chain, no call made yet; a party may hold the record of a
\* channel that has since been closed.
FacInit ==
    /\ chain = [status |-> "UNINITIALISED", deposit |-> 0, partyABalance |-> 0]
    /\ tokens = [n \in Parties |-> AccountFunds]
    /\ localChannel \in [Parties -> BOOLEAN]
    /\ statusCheck = [n \in Parties |-> NoStatusCheck]
    /\ opening = [n \in Parties |-> NoListener]
    /\ fcall = IdleCall
    /\ handler = IdleHandler
    /\ createdBy = {}

FacIdle ==
    /\ chain = [status |-> "UNINITIALISED", deposit |-> 0, partyABalance |-> 0]
    /\ tokens = [n \in Parties |-> AccountFunds]
    /\ localChannel = [n \in Parties |-> FALSE]
    /\ statusCheck = [n \in Parties |-> NoStatusCheck]
    /\ opening = [n \in Parties |-> NoListener]
    /\ fcall = IdleCall
    /\ handler = IdleHandler
    /\ createdBy = {}

\* channel.isOpen(counterpartyPubKey) is called at party n: both reads of
\* Promise.all are issued.  What is remembered of the last handshake is
\* dropped with the last call.
isOpen(n) ==
    /\ CallEnded
    /\ fcall' = [IdleCall EXCEPT !.pc = "isOpen", !.node = n, !.op = "isOpen"]
    /\ handler' = IdleHandler
    /\ UNCHANGED <<chain, tokens, localChannel, statusCheck, opening,
                   createdBy, notFac>>

\* channel.create(counterpartyPubKey, _, channelBalance, sign) is called at
\* party n, with or without channelBalance and sign: it awaits isOpen.  The
\* call remembers whether it was made with the channel open on-chain and
\* present in the local store.
create(n) ==
    /\ CallEnded
    /\ Channels(n) < MaxChannels
    /\ \E bal \in ChannelBalances \cup {NoBalance} :
          /\ bal # NoBalance => Listeners(1) + Listeners(2) < MaxListeners
          /\ fcall' = [IdleCall EXCEPT !.pc = "isOpen", !.node = n, !.op = "create",
                                       !.bal = bal,
                                       !.openAtCall = (isOpenOnChain(chain.status)
                                                       /\ localChannel[n])]
    /\ handler' = IdleHandler
    /\ UNCHANGED <<chain, tokens, localChannel, statusCheck, opening,
                   createdBy, notFac>>

\* isOpen: hoprChannels.channels(channelId).call() settles.
isOpen_onChain ==
    /\ fcall.pc = "isOpen" /\ fcall.onChain = "none"
    /\ fcall' = [fcall EXCEPT !.onChain =
                    IF isOpenOnChain(chain.status) THEN "yes" ELSE "no"]
    /\ UNCHANGED <<chain, tokens, localChannel, statusCheck, opening, handler,
                   createdBy, notFac>>

\* isOpen: db.get(dbKeys.Channel(counterpartyPubKey)) settles.
isOpen_offChain ==
    /\ fcall.pc = "isOpen" /\ fcall.offChain = "none"
    /\ fcall' = [fcall EXCEPT !.offChain =
                    IF localChannel[fcall.node] THEN "yes" ELSE "no"]
    /\ UNCHANGED <<chain, tokens, localChannel, statusCheck, opening, handler,
                   createdBy, notFac>>

\* isOpen has returned `result` to its caller: the caller of isOpen itself,
\* or create, which goes on with db.get of the record or with the funding.
isOpenReturns(result) ==
    IF fcall.op = "isOpen"
    THEN [fcall EXCEPT !.pc = "returned", !.result = result]
    ELSE IF result = "true"
    THEN [fcall EXCEPT !.pc = "db.get"]
    ELSE IF fcall.bal = NoBalance
    THEN FacThrow("Invalid input parameters.")
    ELSE [fcall EXCEPT !.pc = "increaseFunds"]

\* isOpen: Promise.all has settled.
isOpen_then ==
    /\ fcall.pc = "isOpen" /\ fcall.onChain # "none" /\ fcall.offChain # "none"
    /\ LET outcome == isOpenThen(fcall.onChain = "yes", fcall.offChain = "yes")
       IN  fcall' = IF outcome = "onClose" THEN [fcall EXCEPT !.pc = "onClose"]
                    ELSE IF outcome = "throw"
                    THEN FacThrow("exists on-chain but not off-chain")
                    ELSE isOpenReturns(outcome)
    /\ UNCHANGED <<chain, tokens, localChannel, statusCheck, opening, handler,
                   createdBy, notFac>>

\* isOpen: db.del of onClose settles; isOpen returns onChain && offChain.
isOpen_onClose ==
    /\ fcall.pc = "onClose"
    /\ localChannel' = [localChannel EXCEPT ![fcall.node] = FALSE]
    /\ fcall' = isOpenReturns("false")
    /\ UNCHANGED <<chain, tokens, statusCheck, opening, handler, createdBy, notFac>>

\* create, isOpen being true: db.get of the record settles, the channel is
\* built from it (new Channel issues a status read) and returned.
create_get ==
    /\ fcall.pc = "db.get"
    /\ IF localChannel[fcall.node]
       THEN /\ fcall' = [fcall EXCEPT !.pc = "returned", !.result = "channel"]
            /\ statusCheck' = [statusCheck EXCEPT ![fcall.node].status = @ + 1]
            /\ createdBy' = createdBy \cup {fcall.node}
       ELSE /\ fcall' = FacThrow("NotFoundError")
            /\ UNCHANGED <<statusCheck, createdBy>>
    /\ UNCHANGED <<chain, tokens, localChannel, opening, handler, notFac>>

\* create, isOpen being false: increaseFunds(counterparty, amount) settles.
\* With the funds sent, sign(channelBalance) hands the channel to the
\* counterparty's handleOpeningRequest.
create_increaseFunds ==
    /\ fcall.pc = "increaseFunds"
    /\ LET amount == createAmount(fcall.node, fcall.bal)
       IN  IF tokens[fcall.node] < amount
           THEN /\ fcall' = FacThrow("OOF_HOPR")
                /\ UNCHANGED <<chain, tokens, handler>>
           ELSE /\ tokens' = [tokens EXCEPT ![fcall.node] = @ - amount]
                /\ chain' = fundChannel(fcall.node, amount)
                /\ fcall' = [fcall EXCEPT !.pc = "sign", !.deposited = amount]
                /\ handler' = [IdleHandler EXCEPT !.pc = "received",
                                  !.node = Counterparty(fcall.node), !.bal = fcall.bal]
    /\ UNCHANGED <<localChannel, statusCheck, opening, createdBy, notFac>>

\* handleOpeningRequest at the responder, a message having arrived: the
\* amount is worked out and, unless it is zero, increaseFunds is called;
\* with nothing to fund the listener for the opening is set up and the
\* signed channel yielded.
handleOpeningRequest ==
    /\ handler.pc = "received"
    /\ IF handleOpeningRequestAmount(handler.node, handler.bal) > 0
       THEN /\ handler' = [handler EXCEPT !.pc = "increaseFunds"]
            /\ UNCHANGED opening
       ELSE /\ handler' = [handler EXCEPT !.pc = "yielded", !.deposited = 0]
            /\ opening' = [opening EXCEPT ![handler.node].armed = @ + 1]
    /\ UNCHANGED <<chain, tokens, localChannel, statusCheck, fcall, createdBy, notFac>>

\* handleOpeningRequest: increaseFunds settles; onceOpen(...).then(onOpen)
\* is set up and the signed channel yielded.
handleOpeningRequest_increaseFunds ==
    /\ handler.pc = "increaseFunds"
    /\ LET amount == handleOpeningRequestAmount(handler.node, handler.bal)
       IN  IF tokens[handler.node] < amount
           THEN /\ handler' = [handler EXCEPT !.pc = "threw"]
                /\ UNCHANGED <<chain, tokens, opening>>
           ELSE /\ tokens' = [tokens EXCEPT ![handler.node] = @ - amount]
                /\ chain' = fundChannel(handler.node, amount)
                /\ handler' = [handler EXCEPT !.pc = "yielded", !.deposited = amount]
                /\ opening' = [opening EXCEPT ![handler.node].armed = @ + 1]
    /\ UNCHANGED <<localChannel, statusCheck, fcall, createdBy, notFac>>

\* create: sign(channelBalance) settles.  On the signed channel the Channel
\* is built (its constructor issues a status read) and the openChannel
\* transaction is sent.
create_sign ==
    /\ fcall.pc = "sign" /\ handler.pc \in {"yielded", "threw"}
    /\ IF handler.pc = "threw"
       THEN /\ fcall' = FacThrow("OOF_HOPR")
            /\ UNCHANGED statusCheck
       ELSE /\ fcall' = [fcall EXCEPT !.pc = "openChannel"]
            /\ statusCheck' = [statusCheck EXCEPT ![fcall.node].status = @ + 1]
    /\ UNCHANGED <<chain, tokens, localChannel, opening, handler, createdBy, notFac>>

\* create: the openChannel transaction is confirmed or reverted.  The
\* contract opens a channel that is in funding and emits OpenedChannel.
create_openChannel ==
    /\ fcall.pc = "openChannel"
    /\ IF chain.status = "FUNDING"
       THEN /\ chain' = [chain EXCEPT !.status = "OPEN"]
            /\ opening' = [n \in Parties |->
                              onceOpen(n, fcall.node, Counterparty(fcall.node))]
            /\ fcall' = [fcall EXCEPT !.pc = "db.put"]
       ELSE /\ fcall' = FacThrow("reverted")
            /\ UNCHANGED <<chain, opening>>
    /\ UNCHANGED <<tokens, localChannel, statusCheck, handler, createdBy, notFac>>

\* create: db.put of the signed channel settles; the channel is returned.
create_put ==
    /\ fcall.pc = "db.put"
    /\ localChannel' = [localChannel EXCEPT ![fcall.node] = TRUE]
    /\ fcall' = [fcall EXCEPT !.pc = "returned", !.result = "channel"]
    /\ createdBy' = createdBy \cup {fcall.node}
    /\ UNCHANGED <<chain, tokens, statusCheck, opening, handler, notFac>>

\* A listener that handleOpeningRequest has set up at party n has resolved
\* on the OpenedChannel event: the db.put of its onOpen settles.
onOpen(n) ==
    /\ opening[n].fired > 0
    /\ opening' = [opening EXCEPT ![n].fired = @ - 1]
    /\ localChannel' = [localChannel EXCEPT ![n] = TRUE]
    /\ UNCHANGED <<chain, tokens, statusCheck, fcall, handler, createdBy, notFac>>

\* The contract emits OpenedChannel(opener, counterParty) for a channel other
\* than the one between the two parties, while a listener is subscribed that
\* the event is handed to.
OpenedChannel(opener, counterParty) ==
    /\ getId(opener, counterParty) # getId(1, 2)
    /\ \E n \in Parties :
          /\ opening[n].armed > 0
          /\ OpenedChannelFilter(n, Counterparty(n), opener, counterParty)
    /\ opening' = [n \in Parties |-> onceOpen(n, opener, counterParty)]
    /\ UNCHANGED <<chain, tokens, localChannel, statusCheck, fcall, handler,
                   createdBy, notFac>>

\* A listener of party n has returned from an event of another channel; the
\* subscription stays.
onceOpen_return(n) ==
    /\ opening[n].skipped > 0
    /\ opening' = [opening EXCEPT ![n].skipped = @ - 1, ![n].armed = @ + 1]
    /\ UNCHANGED <<chain, tokens, localChannel, statusCheck, fcall, handler,
                   createdBy, notFac>>

\* ChannelFactory.getAll(onData, onEnd) at party n, and closeChannels, which
\* is getAll with initiateSettlement as onData: the read stream hands over
\* the record of the channel and a Channel is built from it, whose
\* constructor issues a status read.  What initiateSettlement does to the
\* chain is initiateChannelClosure below.
getAll(n) ==
    /\ localChannel[n]
    /\ Channels(n) < MaxChannels
    /\ statusCheck' = [statusCheck EXCEPT ![n].status = @ + 1]
    /\ UNCHANGED <<chain, tokens, localChannel, opening, fcall, handler, createdBy,
                   notFac>>

\* The status read of one Channel constructor at party n settles: on an
\* uninitialised channel this.onClose() is called, which issues db.del and
\* is not awaited.
Channel_status(n) ==
    /\ statusCheck[n].status > 0
    /\ statusCheck' = [statusCheck EXCEPT ![n] =
                          [status |-> @.status - 1,
                           onClose |-> IF chain.status = "UNINITIALISED"
                                       THEN @.onClose + 1 ELSE @.onClose]]
    /\ UNCHANGED <<chain, tokens, localChannel, opening, fcall, handler, createdBy,
                   notFac>>

\* The db.del of one constructor's onClose at party n settles: the record is
\* deleted, whatever the chain says by now.
Channel_onClose(n) ==
    /\ statusCheck[n].onClose > 0
    /\ statusCheck' = [statusCheck EXCEPT ![n].onClose = @ - 1]
    /\ localChannel' = [localChannel EXCEPT ![n] = FALSE]
    /\ UNCHANGED <<chain, tokens, opening, fcall, handler, createdBy, notFac>>

\* Either party submits initiateChannelClosure for the open channel.
initiateChannelClosure ==
    /\ chain.status = "OPEN"
    /\ chain' = [chain EXCEPT !.status = "PENDING"]
    /\ UNCHANGED <<tokens, localChannel, statusCheck, opening, fcall, handler,
                   createdBy, notFac>>

\* A second call, isOpen, made at a party while the calls above run: the
\* party's node serves several requests at a time.
IdleConcurrent ==
    [pc |-> "idle", node |-> 0, onChain |-> "none", offChain |-> "none",
     onChainWhileOpening |-> FALSE, offChainWhileOpening |-> FALSE,
     result |-> "none", err |-> "none"]

ConcInit == concurrent = IdleConcurrent

ConcIdle == concurrent = IdleConcurrent

\* create at party n has had openChannel confirmed and has not yet written
\* the record.
OpeningInProgress(n) ==
    fcall.op = "create" /\ fcall.node = n /\ fcall.pc = "db.put"

\* channel.isOpen(counterpartyPubKey) is called at party n while create at
\* that party is in progress: both reads of Promise.all are issued.
concurrent_isOpen(n) ==
    /\ concurrent.pc = "idle"
    /\ fcall.op = "create" /\ fcall.node = n /\ ~CallEnded
    /\ concurrent' = [IdleConcurrent EXCEPT !.pc = "isOpen", !.node = n]
    /\ UNCHANGED <<facVars, notConc>>

\* the concurrent isOpen: hoprChannels.channels(channelId).call() settles
concurrent_onChain ==
    /\ concurrent.pc = "isOpen" /\ concurrent.onChain = "none"
    /\ concurrent' = [concurrent EXCEPT
                         !.onChain = IF isOpenOnChain(chain.status) THEN "yes" ELSE "no",
                         !.onChainWhileOpening = OpeningInProgress(concurrent.node)]
    /\ UNCHANGED <<facVars, notConc>>

\* the concurrent isOpen: db.get(dbKeys.Channel(counterpartyPubKey)) settles
concurrent_offChain ==
    /\ concurrent.pc = "isOpen" /\ concurrent.offChain = "none"
    /\ concurrent' = [concurrent EXCEPT
                         !.offChain = IF localChannel[concurrent.node] THEN "yes" ELSE "no",
                         !.offChainWhileOpening = OpeningInProgress(concurrent.node)]
    /\ UNCHANGED <<facVars, notConc>>

\* the concurrent isOpen: Promise.all has settled
concurrent_then ==
    /\ concurrent.pc = "isOpen"
    /\ concurrent.onChain # "none" /\ concurrent.offChain # "none"
    /\ LET outcome == isOpenThen(concurrent.onChain = "yes", concurrent.offChain = "yes")
       IN  concurrent' =
             IF outcome = "onClose" THEN [concurrent EXCEPT !.pc = "onClose"]
             ELSE IF outcome = "throw"
             THEN [concurrent EXCEPT !.pc = "threw",
                                     !.err = "exists on-chain but not off-chain"]
             ELSE [concurrent EXCEPT !.pc = "returned", !.result = outcome]
    /\ UNCHANGED <<facVars, notConc>>

\* the concurrent isOpen: db.del of onClose settles; isOpen returns false
concurrent_onClose ==
    /\ concurrent.pc = "onClose"
    /\ localChannel' = [localChannel EXCEPT ![concurrent.node] = FALSE]
    /\ concurrent' = [concurrent EXCEPT !.pc = "returned", !.result = "false"]
    /\ UNCHANGED <<chain, tokens, statusCheck, opening, fcall, handler, createdBy,
                   notConc>>

(***************************************************************************)
(* Part V.  PaymentChannel.closeChannel                                    *)
(*                                                                         *)
(* One node closes one of its channels.  The suspension points are the     *)
(* awaits of closeChannel and of submitSettlementTransaction, the timer    *)
(* set with setTimeout and the `closed` event of the node, which is        *)
(* emitted when the ClosedChannel log of the contract reaches the node.    *)
(* The counterparty may settle the channel at any time.  Time is the value *)
(* of Date.now(), which advances in steps of half the settlement timeout.  *)
(* The part ends where withdraw is called.                                 *)
(***************************************************************************)

ClockStep == SETTLEMENT_TIMEOUT \div 2

\* The states the contract reports for a channel: those closeChannel names
\* and, between uninitialised and funded, those of a channel that only one
\* party has funded.
ChannelStates == CHANNEL_STATE_UNINITIALIZED..CHANNEL_STATE_WITHDRAWABLE

\* the node's record of the channel: the stored channel index and the index
\* of the last transaction the node holds
NoCloseRecord == [index |-> -1, txIndex |-> -1]

\* counterpartyHasMoreRecentTransaction: channelIndex.gt(new BN(tx.index))
counterpartyHasMoreRecentTransaction(record) == record.index > record.txIndex

\* closeChannel with the break of the funded case missing before the
\* withdrawable case is reached: a funded channel is withdrawn from at once.
closeChannelCase_fundedFallsThrough(state) ==
    IF state = CHANNEL_STATE_UNINITIALIZED THEN "deleteChannel"
    ELSE IF state = CHANNEL_STATE_FUNDED THEN "withdraw"
    ELSE IF state = CHANNEL_STATE_WITHDRAWABLE THEN "withdraw"
    ELSE "reject"

\* closeChannel whose uninitialised case rejects without deleteChannel.
closeChannelCase_uninitializedNotPruned(state) ==
    IF state = CHANNEL_STATE_UNINITIALIZED THEN "reject"
    ELSE IF state = CHANNEL_STATE_FUNDED THEN "funded"
    ELSE IF state = CHANNEL_STATE_WITHDRAWABLE THEN "withdraw"
    ELSE "reject"

\* closeChannel: switch (parseInt(channel.state))
closeChannelCase(state) ==
    IF state = CHANNEL_STATE_UNINITIALIZED THEN "deleteChannel"
    ELSE IF state = CHANNEL_STATE_FUNDED THEN "funded"
    ELSE IF state = CHANNEL_STATE_WITHDRAWABLE THEN "withdraw"
    ELSE "reject"

\* The handler of the `closed` event that never clears the timer.
clearsTimeout_never(elapsed) == FALSE

\* closeChannel, handler of the `closed` event in the cooperative branch:
\*   if (Date.now() - now < SETTLEMENT_TIMEOUT) clearTimeout(timeout)
clearsTimeout(elapsed) == elapsed < SETTLEMENT_TIMEOUT

\* A timer set with setTimeout(fn, SETTLEMENT_TIMEOUT, ...) is due once the
\* delay has passed; it may run later than that, never earlier.
timeoutDue(elapsed) == elapsed >= SETTLEMENT_TIMEOUT

\* submitSettlementTransaction(channelId) as it begins, called on the
\* PaymentChannel (this.submitSettlementTransaction(channelId)) or as the
\* bare function handed to setTimeout.  In the second case `this` is the
\* timer: this.getLastTransaction is no function, the TypeError is caught
\* and passed to reject, and the next statement, which reads
\* this.node.peerInfo, throws before contractCall is reached.
submitSettlementTransactionBegins(onPaymentChannel) ==
    IF onPaymentChannel THEN "getLastTransaction" ELSE "TypeError"

IdleClosing ==
    [pc |-> "idle", state |-> -1, branch |-> "none", now |-> -1,
     timer |-> "none", firedAt |-> -1, listener |-> FALSE, handlerAt |-> -1,
     withdraw |-> FALSE]

IdleSettle == [pc |-> "none", by |-> "none"]

\* A channel in any state, of which the node holds the record, with a last
\* transaction that is the latest of the channel or an older one.
CloseInit ==
    /\ channelState \in ChannelStates
    /\ closeRecord \in {[index |-> i, txIndex |-> j] :
                            i \in 0..MaxIndex, j \in 0..MaxIndex}
    /\ closeRecord.txIndex <= closeRecord.index
    /\ clock = 0
    /\ eventPending = FALSE
    /\ closedAt = -1
    /\ submitted = FALSE
    /\ asked = "none"
    /\ closing = IdleClosing
    /\ settle = IdleSettle

CloseIdle ==
    /\ channelState = CHANNEL_STATE_UNINITIALIZED
    /\ closeRecord = NoCloseRecord
    /\ clock = 0
    /\ eventPending = FALSE
    /\ closedAt = -1
    /\ submitted = FALSE
    /\ asked = "none"
    /\ closing = IdleClosing
    /\ settle = IdleSettle

\* the last value of the clock
ClockMax == MaxTicks * ClockStep

\* Date.now() advances.
tick ==
    /\ clock < ClockMax
    /\ clock' = clock + ClockStep
    /\ UNCHANGED <<channelState, closeRecord, eventPending, closedAt, submitted,
                   asked, closing, settle, notClose>>

\* closeChannel(channelId) is called: contract.methods.channels(channelId).call
closeChannel ==
    /\ closing.pc = "idle"
    /\ closing' = [closing EXCEPT !.pc = "channels"]
    /\ UNCHANGED <<channelState, closeRecord, clock, eventPending, closedAt,
                   submitted, asked, settle, notClose>>

\* closeChannel: the channel has been read; the switch on its state.
closeChannel_channels ==
    /\ closing.pc = "channels"
    /\ LET case == closeChannelCase(channelState)
       IN  closing' =
             IF case = "deleteChannel"
             THEN [closing EXCEPT !.pc = "deleteChannel", !.state = channelState]
             ELSE IF case = "funded"
             THEN [closing EXCEPT !.pc = "hasMoreRecent", !.state = channelState]
             ELSE IF case = "withdraw"
             THEN [closing EXCEPT !.pc = "withdraw", !.state = channelState,
                                  !.withdraw = TRUE]
             ELSE [closing EXCEPT !.pc = "rejected", !.state = channelState]
    /\ UNCHANGED <<channelState, closeRecord, clock, eventPending, closedAt,
                   submitted, asked, settle, notClose>>

\* closeChannel, uninitialised channel: deleteChannel settles, reject.
closeChannel_deleteChannel ==
    /\ closing.pc = "deleteChannel"
    /\ closeRecord' = NoCloseRecord
    /\ closing' = [closing EXCEPT !.pc = "rejected"]
    /\ UNCHANGED <<channelState, clock, eventPending, closedAt, submitted,
                   asked, settle, notClose>>

\* closeChannel, funded channel: counterpartyHasMoreRecentTransaction
\* settles.  If it is true: now = Date.now(), the timer is set, the handler
\* of `closed` registered and askCounterpartyToCloseChannel called, which
\* begins with db.get of the restore transaction.  Otherwise the handler is
\* registered and submitSettlementTransaction called.
closeChannel_hasMoreRecent ==
    /\ closing.pc = "hasMoreRecent"
    /\ IF counterpartyHasMoreRecentTransaction(closeRecord)
       THEN /\ closing' = [closing EXCEPT !.pc = "waiting", !.branch = "cooperative",
                                          !.now = clock, !.timer = "armed",
                                          !.listener = TRUE]
            /\ asked' = "db.get"
            /\ UNCHANGED settle
       ELSE /\ closing' = [closing EXCEPT !.pc = "waiting", !.branch = "immediate",
                                          !.listener = TRUE]
            /\ settle' = [pc |-> submitSettlementTransactionBegins(TRUE),
                          by |-> "closeChannel"]
            /\ UNCHANGED asked
    /\ UNCHANGED <<channelState, closeRecord, clock, eventPending, closedAt,
                   submitted, notClose>>

\* askCounterpartyToCloseChannel: db.get of the restore transaction
\* settles; the waterfall begins with peerRouting.findPeer.
askCounterpartyToCloseChannel_get ==
    /\ asked = "db.get"
    /\ asked' = "findPeer"
    /\ UNCHANGED <<channelState, closeRecord, clock, eventPending, closedAt,
                   submitted, closing, settle, notClose>>

\* askCounterpartyToCloseChannel: findPeer calls back, with the peer
\* (dialProtocol is called) or with an error, which is logged: the
\* counterparty is not asked.
askCounterpartyToCloseChannel_findPeer ==
    /\ asked = "findPeer"
    /\ \E err \in BOOLEAN : asked' = IF err THEN "failed" ELSE "dialProtocol"
    /\ UNCHANGED <<channelState, closeRecord, clock, eventPending, closedAt,
                   submitted, closing, settle, notClose>>

\* askCounterpartyToCloseChannel: dialProtocol calls back, with the
\* connection, on which the channel id is sent, or with an error.
askCounterpartyToCloseChannel_dialProtocol ==
    /\ asked = "dialProtocol"
    /\ \E err \in BOOLEAN : asked' = IF err THEN "failed" ELSE "sent"
    /\ UNCHANGED <<channelState, closeRecord, clock, eventPending, closedAt,
                   submitted, closing, settle, notClose>>

\* The timer of the cooperative branch runs its callback.
timeout ==
    /\ closing.timer = "armed"
    /\ timeoutDue(clock - closing.now)
    /\ closing' = [closing EXCEPT !.timer = "fired", !.firedAt = clock]
    /\ settle' = [pc |-> submitSettlementTransactionBegins(FALSE), by |-> "timer"]
    /\ UNCHANGED <<channelState, closeRecord, clock, eventPending, closedAt,
                   submitted, asked, notClose>>

\* submitSettlementTransaction: getLastTransaction settles, and contractCall
\* is handed the contract's closeChannel with the transaction.
submitSettlementTransaction_getLastTransaction ==
    /\ settle.pc = "getLastTransaction"
    /\ settle' = [settle EXCEPT !.pc = "contractCall"]
    /\ submitted' = TRUE
    /\ UNCHANGED <<channelState, closeRecord, clock, eventPending, closedAt,
                   asked, closing, notClose>>

\* submitSettlementTransaction: contractCall settles.  The contract settles
\* a funded channel and logs ClosedChannel; on any other it reverts.
submitSettlementTransaction_contractCall ==
    /\ settle.pc = "contractCall"
    /\ IF channelState = CHANNEL_STATE_FUNDED
       THEN /\ channelState' = CHANNEL_STATE_WITHDRAWABLE
            /\ eventPending' = TRUE
            /\ settle' = [settle EXCEPT !.pc = "resolved"]
       ELSE /\ settle' = [settle EXCEPT !.pc = "rejected"]
            /\ UNCHANGED <<channelState, eventPending>>
    /\ UNCHANGED <<closeRecord, clock, closedAt, submitted, asked, closing, notClose>>

\* The counterparty settles the funded channel, asked to or not.
counterpartySettles ==
    /\ channelState = CHANNEL_STATE_FUNDED
    /\ channelState' = CHANNEL_STATE_WITHDRAWABLE
    /\ eventPending' = TRUE
    /\ UNCHANGED <<closeRecord, clock, closedAt, submitted, asked, closing,
                   settle, notClose>>

\* The ClosedChannel log reaches the node and emitClosed(channelId) emits
\* `closed`.  A handler registered with onceClosed runs, once: in the
\* cooperative branch it clears the timer if the timeout has not passed, in
\* both branches it calls withdraw.  With no handler registered the event
\* is emitted to nobody.
emitClosed ==
    /\ eventPending
    /\ eventPending' = FALSE
    /\ closedAt' = clock
    /\ closing' =
         IF closing.listener
         THEN [closing EXCEPT
                 !.listener = FALSE, !.handlerAt = clock, !.withdraw = TRUE,
                 !.pc = "withdraw",
                 !.timer = IF closing.branch = "cooperative" /\ closing.timer = "armed"
                              /\ clearsTimeout(clock - closing.now)
                           THEN "cleared" ELSE @]
         ELSE closing
    /\ UNCHANGED <<channelState, closeRecord, clock, submitted, asked, settle, notClose>>

(***************************************************************************)
(* Part VI.  PaymentChannel.withdraw and the node's store                  *)
(*                                                                         *)
(* The keys of node.db are byte strings: a text prefix followed by the     *)
(* bytes of a channel id and, for a challenge, of a curve point.  A key    *)
(* is the sequence of the place its text prefix takes among the prefixes   *)
(* in byte order, and of its bytes; channel ids and challenges are one     *)
(* byte long here.  The keys of the subscription maps are JavaScript       *)
(* strings, sequences of character codes.                                  *)
(*                                                                         *)
(* withdraw is called for one channel, in any state of the contract; while *)
(* it runs, blocks are mined and nobody else touches the channel.          *)
(***************************************************************************)

\* the text prefixes of the keys, in byte order
KeyPrefixes ==
    <<"packet-tag-", "payments-challenge-", "payments-currentValue-",
      "payments-index-", "payments-initialBalance-", "payments-key-",
      "payments-onChainBalance-", "payments-restoreTx-",
      "payments-stashedRestoreTx-", "payments-totalBalance-", "payments-tx-">>

Prefix(text) == CHOOSE i \in 1..Len(KeyPrefixes) : KeyPrefixes[i] = text

\* channel ids (ASCII bytes) and challenges (compressed curve points, whose
\* first byte is 2 or 3)
StoreChannelIds == {<<97>>, <<98>>}
StoreChallenges == {<<2>>, <<3>>}
StoreTags == {<<1>>}

\* Buffer.alloc(size, fill)
alloc(size, fill) == [i \in 1..size |-> fill]

ChannelKey(channelId) == <<Prefix("payments-key-")>> \o channelId
Transaction(channelId) == <<Prefix("payments-tx-")>> \o channelId
RestoreTransaction(channelId) == <<Prefix("payments-restoreTx-")>> \o channelId
StashedRestoreTransaction(channelId) ==
    <<Prefix("payments-stashedRestoreTx-")>> \o channelId
Index(channelId) == <<Prefix("payments-index-")>> \o channelId
CurrentValue(channelId) == <<Prefix("payments-currentValue-")>> \o channelId
InitialValueKey(channelId) == <<Prefix("payments-initialBalance-")>> \o channelId
CurrentOnChainBalance(channelId) ==
    <<Prefix("payments-onChainBalance-")>> \o channelId
TotalBalance(channelId) == <<Prefix("payments-totalBalance-")>> \o channelId
Challenge(channelId, challenge) ==
    <<Prefix("payments-challenge-")>> \o channelId \o challenge
PacketTag(tag) == <<Prefix("packet-tag-")>> \o tag

\* the order of the keys in the store: byte by byte, a proper prefix first
RECURSIVE lexLess(_, _)
lexLess(a, b) ==
    IF a = <<>> THEN b # <<>>
    ELSE IF b = <<>> THEN FALSE
    ELSE IF Head(a) # Head(b) THEN Head(a) < Head(b)
    ELSE lexLess(Tail(a), Tail(b))

\* db.createKeyStream({ gt, lt })
createKeyStream(db, gt, lt) == {k \in db : lexLess(gt, k) /\ lexLess(k, lt)}

ChallengeLength == Len(CHOOSE c \in StoreChallenges : TRUE)
ChannelIdLength == Len(CHOOSE c \in StoreChannelIds : TRUE)

\* the nine keys deleteChannel names
ChannelRecordKeys(channelId) ==
    {ChannelKey(channelId), Transaction(channelId), RestoreTransaction(channelId),
     StashedRestoreTransaction(channelId), Index(channelId), CurrentValue(channelId),
     CurrentOnChainBalance(channelId), InitialValueKey(channelId),
     TotalBalance(channelId)}

\* deleteChannel whose key stream runs over the challenges of all channels.
deleteChannelBatch_allChallenges(db, channelId) ==
    db \ (ChannelRecordKeys(channelId)
          \cup createKeyStream(db,
                  Challenge(alloc(ChannelIdLength, 0), alloc(ChallengeLength, 0)),
                  Challenge(alloc(ChannelIdLength, 255), alloc(ChallengeLength, 255))))

\* deleteChannel: the batch of the nine dels and of a del for every key the
\* key stream between Challenge(channelId, 00..00) and
\* Challenge(channelId, ff..ff) yields, written at the stream's end.
deleteChannelBatch(db, channelId) ==
    db \ (ChannelRecordKeys(channelId)
          \cup createKeyStream(db,
                  Challenge(channelId, alloc(ChallengeLength, 0)),
                  Challenge(channelId, alloc(ChallengeLength, 255))))

\* character code of a hexadecimal digit
HexDigit(n) == IF n < 10 THEN 48 + n ELSE 87 + n

\* buf.toString('hex'): two digits for a byte
RECURSIVE toStringHex(_)
toStringHex(buf) ==
    IF buf = <<>> THEN <<>>
    ELSE <<HexDigit(Head(buf) \div 16), HexDigit(Head(buf) % 16)>>
            \o toStringHex(Tail(buf))

\* buf.toString(): the UTF-8 decoding, one character for an ASCII byte
toString(buf) == [i \in 1..Len(buf) |-> buf[i]]

HexKeys == {toStringHex(c) : c \in StoreChannelIds}

\* withdraw with the block test not strict: a block at the settle timestamp
\* itself passes.
blockIsLater_notStrict(blockTimestamp, settleTimestamp) ==
    blockTimestamp >= settleTimestamp

\* blockTimestamp.gt(new BN(channel.settleTimestamp))
blockIsLater(blockTimestamp, settleTimestamp) == blockTimestamp > settleTimestamp

\* waitUntilChannelIsWithdrawable, after Promise.all:
\*   channel.state == CHANNEL_STATE_WITHDRAWABLE && blockTimestamp.gt(settleTimestamp)
isWithdrawableNow(state, blockTimestamp, settleTimestamp) ==
    state = CHANNEL_STATE_WITHDRAWABLE /\ blockIsLater(blockTimestamp, settleTimestamp)

\* withdraw, clean-up: self.closingSubscriptions.delete(channelId.toString())
closingSubscriptionKey(channelId) == toString(channelId)

\* The contract's withdraw: it pays out a withdrawable channel once the
\* settle timestamp has passed and clears the channel; otherwise it reverts.
contractWithdraws(channel, blockTimestamp) ==
    channel.state = CHANNEL_STATE_WITHDRAWABLE
    /\ blockTimestamp >= channel.settleTimestamp

NoChannel == [state |-> CHANNEL_STATE_UNINITIALIZED, settleTimestamp |-> 0]

IdleWithdraw ==
    [pc |-> "idle", id |-> <<>>, state |-> -1, settleTimestamp |-> -1,
     blockTimestamp |-> -1, observed |-> -1, path |-> "none",
     deleting |-> FALSE, submitted |-> FALSE]

IdleSop == [pc |-> "idle", op |-> "none", id |-> <<>>, found |-> "none",
            before |-> {}, closeChannel |-> FALSE]

\* The channel in any state, with any settle timestamp; the node holds the
\* whole record of a channel or nothing of it; block subscriptions of
\* earlier calls may be registered.  this.closingSubscriptions is the empty
\* map of the constructor: its entries are set by registerSettlementListener.
WdInit ==
    /\ wchain \in [state : ChannelStates, settleTimestamp : 0..MaxBlockTime]
    /\ blockTime = 1
    /\ subscriptions \in SUBSET HexKeys
    /\ closingSubscriptions = {}
    /\ settleTimestamps = [k \in HexKeys |-> -1]
    /\ wd = IdleWithdraw
    /\ store \in {UNION {ChannelRecordKeys(c) : c \in S} : S \in SUBSET StoreChannelIds}
    /\ sop = IdleSop

WdIdle ==
    /\ wchain = NoChannel
    /\ blockTime = 0
    /\ subscriptions = {}
    /\ closingSubscriptions = {}
    /\ settleTimestamps = [k \in HexKeys |-> -1]
    /\ wd = IdleWithdraw
    /\ store = {}
    /\ sop = IdleSop

\* registerSettlementListener(channelId), called at any time (by
\* registerEventListeners for every restore transaction in the store when
\* the module is set up, or by anyone later): a channel id of another
\* length throws; otherwise the subscription to the ClosedChannel logs of
\* the channel is stored under channelId.toString('hex').
registerSettlementListener(channelId) ==
    /\ Len(channelId) = ChannelIdLength
    /\ closingSubscriptions' = closingSubscriptions \cup {toStringHex(channelId)}
    /\ UNCHANGED <<wchain, blockTime, subscriptions, settleTimestamps, wd, store,
                   sop, notWd>>

\* withdraw(channelId) is called: Promise.all issues both reads.
withdraw(channelId) ==
    /\ wd.pc = "idle"
    /\ wd' = [IdleWithdraw EXCEPT !.pc = "reads", !.id = channelId]
    /\ UNCHANGED <<wchain, blockTime, subscriptions, closingSubscriptions,
                   settleTimestamps, store, sop, notWd>>

\* waitUntilChannelIsWithdrawable: contract.methods.channels(channelId).call settles.
withdraw_channels ==
    /\ wd.pc = "reads" /\ wd.state = -1
    /\ wd' = [wd EXCEPT !.state = wchain.state,
                        !.settleTimestamp = wchain.settleTimestamp]
    /\ UNCHANGED <<wchain, blockTime, subscriptions, closingSubscriptions,
                   settleTimestamps, store, sop, notWd>>

\* waitUntilChannelIsWithdrawable: web3.eth.getBlock('latest') settles.
withdraw_getBlock ==
    /\ wd.pc = "reads" /\ wd.blockTimestamp = -1
    /\ wd' = [wd EXCEPT !.blockTimestamp = blockTime]
    /\ UNCHANGED <<wchain, blockTime, subscriptions, closingSubscriptions,
                   settleTimestamps, store, sop, notWd>>

\* waitUntilChannelIsWithdrawable: Promise.all has settled.  Either the
\* promise resolves, or the settle timestamp is stored and the subscription
\* to newBlockHeaders set up and stored.
withdraw_wait ==
    /\ wd.pc = "reads" /\ wd.state # -1 /\ wd.blockTimestamp # -1
    /\ IF isWithdrawableNow(wd.state, wd.blockTimestamp, wd.settleTimestamp)
       THEN /\ wd' = [wd EXCEPT !.pc = "restoreTx", !.observed = wd.blockTimestamp,
                                !.path = "atCall"]
            /\ UNCHANGED <<settleTimestamps, subscriptions>>
       ELSE /\ settleTimestamps' =
                 [settleTimestamps EXCEPT ![toStringHex(wd.id)] = wd.settleTimestamp]
            /\ subscriptions' = subscriptions \cup {toStringHex(wd.id)}
            /\ wd' = [wd EXCEPT !.pc = "subscribed"]
    /\ UNCHANGED <<wchain, blockTime, closingSubscriptions, store, sop, notWd>>

\* A block is mined.  The `data` handler of a subscription of withdraw runs
\* on its header: if the block is later than the stored settle timestamp,
\* subscription.unsubscribe is called.
newBlockHeaders ==
    /\ blockTime < MaxBlockTime
    /\ blockTime' = blockTime + 1
    /\ wd' = IF wd.pc = "subscribed"
                /\ blockIsLater(blockTime', settleTimestamps[toStringHex(wd.id)])
             THEN [wd EXCEPT !.pc = "unsubscribe", !.observed = blockTime',
                             !.path = "newBlock"]
             ELSE wd
    /\ UNCHANGED <<wchain, subscriptions, closingSubscriptions, settleTimestamps,
                   store, sop, notWd>>

\* The callback of unsubscribe runs with (err, ok): reject on err, resolve
\* on ok, neither otherwise (the subscription stays).
withdraw_unsubscribe ==
    /\ wd.pc = "unsubscribe"
    /\ \E outcome \in {"err", "ok", "neither"} :
          wd' = IF outcome = "err" THEN [wd EXCEPT !.pc = "rejected"]
                ELSE IF outcome = "ok" THEN [wd EXCEPT !.pc = "restoreTx"]
                ELSE [wd EXCEPT !.pc = "subscribed", !.observed = -1, !.path = "none"]
    /\ UNCHANGED <<wchain, blockTime, subscriptions, closingSubscriptions,
                   settleTimestamps, store, sop, notWd>>

\* inner withdraw: db.get(RestoreTransaction(channelId)) settles; with the
\* restore transaction contractCall is handed the contract's withdraw.
withdraw_restoreTx ==
    /\ wd.pc = "restoreTx"
    /\ wd' = IF RestoreTransaction(wd.id) \in store
             THEN [wd EXCEPT !.pc = "contractCall", !.submitted = TRUE]
             ELSE [wd EXCEPT !.pc = "rejected"]
    /\ UNCHANGED <<wchain, blockTime, subscriptions, closingSubscriptions,
                   settleTimestamps, store, sop, notWd>>

\* inner withdraw: contractCall settles.  On the receipt both subscriptions
\* of the channel are looked up, unsubscribed and deleted, and deleteChannel
\* is called, which is not awaited; a reverted transaction rejects.
withdraw_contractCall ==
    /\ wd.pc = "contractCall"
    /\ IF contractWithdraws(wchain, blockTime)
       THEN /\ wchain' = NoChannel
            /\ subscriptions' = subscriptions \ {toStringHex(wd.id)}
            /\ closingSubscriptions' =
                 IF toStringHex(wd.id) \in closingSubscriptions
                 THEN closingSubscriptions \ {closingSubscriptionKey(wd.id)}
                 ELSE closingSubscriptions
            /\ wd' = [wd EXCEPT !.pc = "onChainBalance", !.deleting = TRUE]
       ELSE /\ wd' = [wd EXCEPT !.pc = "rejected"]
            /\ UNCHANGED <<wchain, subscriptions, closingSubscriptions>>
    /\ UNCHANGED <<blockTime, settleTimestamps, store, sop, notWd>>

\* The batch of the deleteChannel that withdraw has called is written.
withdraw_deleteChannel ==
    /\ wd.deleting
    /\ store' = deleteChannelBatch(store, wd.id)
    /\ wd' = [wd EXCEPT !.deleting = FALSE]
    /\ UNCHANGED <<wchain, blockTime, subscriptions, closingSubscriptions,
                   settleTimestamps, sop, notWd>>

\* withdraw: db.get(CurrentOnChainBalance(channelId)) settles.
withdraw_onChainBalance ==
    /\ wd.pc = "onChainBalance"
    /\ wd' = IF CurrentOnChainBalance(wd.id) \in store
             THEN [wd EXCEPT !.pc = "resolved"]
             ELSE [wd EXCEPT !.pc = "notFound"]
    /\ UNCHANGED <<wchain, blockTime, subscriptions, closingSubscriptions,
                   settleTimestamps, store, sop, notWd>>

\* getLastTransaction that looks for the stashed restore transaction before
\* the restore transaction.
getLastTransactionNext_stashedFirst(kind) ==
    IF kind = "tx" THEN "stashedRestoreTx"
    ELSE IF kind = "stashedRestoreTx" THEN "restoreTx"
    ELSE "undefined"

\* getLastTransaction: what the catch of a db.get that was answered
\* notFound goes on with; the innermost catch returns undefined.
getLastTransactionNext(kind) ==
    IF kind = "tx" THEN "restoreTx"
    ELSE IF kind = "restoreTx" THEN "stashedRestoreTx"
    ELSE "undefined"

\* the key getLastTransaction reads for a kind of transaction
TransactionKey(kind, channelId) ==
    IF kind = "tx" THEN Transaction(channelId)
    ELSE IF kind = "restoreTx" THEN RestoreTransaction(channelId)
    ELSE StashedRestoreTransaction(channelId)

\* Transaction.fromBuffer(txBuffer): of undefined there is nothing to read,
\* and the TypeError rejects getLastTransaction.
fromBufferThrows(found) == found = "undefined"

\* The node holds any of the three transactions of a channel, the rest of
\* its record or not, its challenges or not, and any packet tags.
StoreInit ==
    /\ \E txs \in [StoreChannelIds -> SUBSET {"tx", "restoreTx", "stashedRestoreTx"}],
          rest \in [StoreChannelIds -> BOOLEAN],
          challenges \in [StoreChannelIds -> BOOLEAN],
          tags \in SUBSET StoreTags :
          store = UNION {{TransactionKey(k, c) : k \in txs[c]} : c \in StoreChannelIds}
                  \cup UNION {IF rest[c]
                              THEN ChannelRecordKeys(c)
                                   \ {TransactionKey(k, c) :
                                        k \in {"tx", "restoreTx", "stashedRestoreTx"}}
                              ELSE {} : c \in StoreChannelIds}
                  \cup UNION {IF challenges[c]
                              THEN {Challenge(c, h) : h \in StoreChallenges}
                              ELSE {} : c \in StoreChannelIds}
                  \cup {PacketTag(t) : t \in tags}
    /\ wchain = NoChannel
    /\ blockTime = 0
    /\ subscriptions = {}
    /\ closingSubscriptions = {}
    /\ settleTimestamps = [k \in HexKeys |-> -1]
    /\ wd = IdleWithdraw
    /\ sop = IdleSop

SopEnded == sop.pc \in {"idle", "resolved", "rejected"}

\* getLastTransaction(channelId) is called: db.get(Transaction(channelId))
getLastTransaction(channelId) ==
    /\ SopEnded
    /\ sop' = [IdleSop EXCEPT !.pc = "tx", !.op = "getLastTransaction",
                              !.id = channelId, !.before = store]
    /\ UNCHANGED <<wchain, blockTime, subscriptions, closingSubscriptions,
                   settleTimestamps, wd, store, notWd>>

\* submitSettlementTransaction(channelId) is called on the PaymentChannel:
\* it awaits getLastTransaction(channelId).
submitSettlementTransaction(channelId) ==
    /\ SopEnded
    /\ sop' = [IdleSop EXCEPT !.pc = "tx", !.op = "submitSettlementTransaction",
                              !.id = channelId, !.before = store]
    /\ UNCHANGED <<wchain, blockTime, subscriptions, closingSubscriptions,
                   settleTimestamps, wd, store, notWd>>

\* getLastTransaction: a db.get settles, with the value or with notFound.
getLastTransaction_get ==
    /\ sop.pc \in {"tx", "restoreTx", "stashedRestoreTx"}
    /\ sop' = IF TransactionKey(sop.pc, sop.id) \in store
              THEN [sop EXCEPT !.pc = "fromBuffer", !.found = sop.pc]
              ELSE IF getLastTransactionNext(sop.pc) = "undefined"
              THEN [sop EXCEPT !.pc = "fromBuffer", !.found = "undefined"]
              ELSE [sop EXCEPT !.pc = getLastTransactionNext(sop.pc)]
    /\ UNCHANGED <<wchain, blockTime, subscriptions, closingSubscriptions,
                   settleTimestamps, wd, store, notWd>>

\* getLastTransaction: .then(Transaction.fromBuffer) and the last catch.
\* The promise settles.  submitSettlementTransaction goes on after its
\* try/catch in either case: with a transaction it hands the contract's
\* closeChannel to contractCall; without one, reject(err) has run and the
\* read of lastTx.index throws before closeChannel is called.
getLastTransaction_fromBuffer ==
    /\ sop.pc = "fromBuffer"
    /\ sop' = IF fromBufferThrows(sop.found)
              THEN [sop EXCEPT !.pc = "rejected"]
              ELSE IF sop.op = "submitSettlementTransaction"
              THEN [sop EXCEPT !.pc = "contractCall", !.closeChannel = TRUE]
              ELSE [sop EXCEPT !.pc = "resolved"]
    /\ UNCHANGED <<wchain, blockTime, subscriptions, closingSubscriptions,
                   settleTimestamps, wd, store, notWd>>

\* submitSettlementTransaction: contractCall settles, with the receipt or
\* with the error of a reverted transaction.
submitSettlementTransaction_then ==
    /\ sop.pc = "contractCall"
    /\ \E ok \in BOOLEAN :
          sop' = [sop EXCEPT !.pc = IF ok THEN "resolved" ELSE "rejected"]
    /\ UNCHANGED <<wchain, blockTime, subscriptions, closingSubscriptions,
                   settleTimestamps, wd, store, notWd>>

\* deleteChannel(channelId) is called: the batch is set up and the key
\* stream of the channel's challenges opened.
deleteChannel(channelId) ==
    /\ SopEnded
    /\ sop' = [IdleSop EXCEPT !.pc = "stream", !.op = "deleteChannel",
                              !.id = channelId, !.before = store]
    /\ UNCHANGED <<wchain, blockTime, subscriptions, closingSubscriptions,
                   settleTimestamps, wd, store, notWd>>

\* deleteChannel: the stream has ended and the batch is written.
deleteChannel_end ==
    /\ sop.pc = "stream"
    /\ store' = deleteChannelBatch(store, sop.id)
    /\ sop' = [sop EXCEPT !.pc = "resolved"]
    /\ UNCHANGED <<wchain, blockTime, subscriptions, closingSubscriptions,
                   settleTimestamps, wd, notWd>>

(***************************************************************************)
(* Part VII.  Channel.initiateSettlement                                   *)
(*                                                                         *)
(* One party holds a Channel object, whose constructor has issued the read *)
(* of the status and registered a handler of ClosedChannel, either of      *)
(* which ends in onClose, and calls initiateSettlement once.  The          *)
(* suspension points are its awaits.  The counterparty may initiate and    *)
(* claim the closure at any time.                                          *)
(***************************************************************************)

\* initiateSettlement that does not wait for the closure time.
waitForDue_noWait(blockTimestamp, closureTime) == TRUE

\* waitFor({ timestamp: closureTime }): the latest block has reached the timestamp
waitForDue(blockTimestamp, closureTime) == blockTimestamp >= closureTime

\* initiateSettlement after the status has been read:
\*   if (!(status === OPEN || status === PENDING)) throw
\*   if (status === OPEN) { initiateChannelClosure ... } else { await this.onceClosed() }
settlementBranch(status) ==
    IF status = "OPEN" THEN "initiateChannelClosure"
    ELSE IF status = "PENDING" THEN "onceClosed"
    ELSE "throw"

\* The contract's initiateChannelClosure on an open channel: the closure is
\* pending and may be claimed from the next block on.
pendingClosure(blockTimestamp) ==
    [status |-> "PENDING", closureTime |-> blockTimestamp + 1]

\* The contract's claimChannelClosure: a pending closure whose time has come
\* is claimed; otherwise the transaction reverts.
claimable(channel, blockTimestamp) ==
    channel.status = "PENDING" /\ blockTimestamp >= channel.closureTime

ClosedOnChain == [status |-> "UNINITIALISED", closureTime |-> 0]

IdleSettlement ==
    [pc |-> "idle", status |-> "none", closureTime |-> -1,
     initiated |-> FALSE, claimAt |-> -1, claimed |-> FALSE]

SetInit ==
    /\ schain \in {[status |-> s, closureTime |-> 0] :
                      s \in {"UNINITIALISED", "FUNDING", "OPEN"}}
                  \cup {[status |-> "PENDING", closureTime |-> t] : t \in 1..MaxBlockTime}
    /\ sblock = 1
    /\ srecord \in BOOLEAN
    /\ sconstructor = [status |-> TRUE, onClose |-> 0]
    /\ slisteners = {"constructor"}
    /\ sevents = {}
    /\ byCounterparty = {}
    /\ ist = IdleSettlement

\* The Channel was built from the record of the channel in the node's store.
ConstructedInit == SetInit /\ srecord

SetIdle ==
    /\ schain = ClosedOnChain
    /\ sblock = 0
    /\ srecord = FALSE
    /\ sconstructor = [status |-> FALSE, onClose |-> 0]
    /\ slisteners = {}
    /\ sevents = {}
    /\ byCounterparty = {}
    /\ ist = IdleSettlement

\* channel.initiateSettlement() is called: await this.channel, await this.status
initiateSettlement ==
    /\ ist.pc = "idle"
    /\ ist' = [ist EXCEPT !.pc = "status"]
    /\ UNCHANGED <<schain, sblock, srecord, slisteners, sevents, byCounterparty, sconstructor, notSet>>

\* initiateSettlement: the status has been read.  On an open channel the
\* initiateChannelClosure transaction is sent; on a pending closure
\* onceClosed subscribes to ClosedChannel; otherwise the call throws.
initiateSettlement_status ==
    /\ ist.pc = "status"
    /\ LET branch == settlementBranch(schain.status)
       IN  /\ ist' = IF branch = "throw" THEN [ist EXCEPT !.pc = "threw",
                                                         !.status = schain.status]
                     ELSE [ist EXCEPT !.pc = branch, !.status = schain.status,
                                      !.closureTime =
                                         IF branch = "waitFor" THEN schain.closureTime
                                         ELSE @]
           /\ slisteners' = IF branch = "onceClosed"
                            THEN slisteners \cup {"initiateSettlement"}
                            ELSE slisteners
    /\ UNCHANGED <<schain, sblock, srecord, sevents, byCounterparty, sconstructor, notSet>>

\* initiateSettlement: waitForConfirmation of initiateChannelClosure settles.
initiateSettlement_initiateChannelClosure ==
    /\ ist.pc = "initiateChannelClosure"
    /\ IF schain.status = "OPEN"
       THEN /\ schain' = pendingClosure(sblock)
            /\ ist' = [ist EXCEPT !.pc = "getChannel", !.initiated = TRUE]
       ELSE /\ ist' = [ist EXCEPT !.pc = "threw"]
            /\ UNCHANGED schain
    /\ UNCHANGED <<sblock, srecord, slisteners, sevents, byCounterparty, sconstructor, notSet>>

\* initiateSettlement: channel = await getChannel(...) settles.
initiateSettlement_getChannel ==
    /\ ist.pc = "getChannel"
    /\ ist' = [ist EXCEPT !.pc = "waitFor", !.closureTime = schain.closureTime]
    /\ UNCHANGED <<schain, sblock, srecord, slisteners, sevents, byCounterparty, sconstructor, notSet>>

\* initiateSettlement: waitFor settles and the claimChannelClosure
\* transaction is sent.
initiateSettlement_waitFor ==
    /\ ist.pc = "waitFor"
    /\ waitForDue(sblock, ist.closureTime)
    /\ ist' = [ist EXCEPT !.pc = "claimChannelClosure", !.claimAt = sblock]
    /\ UNCHANGED <<schain, sblock, srecord, slisteners, sevents, byCounterparty, sconstructor, notSet>>

\* initiateSettlement: waitForConfirmation of claimChannelClosure settles.
\* The contract closes the channel and logs ClosedChannel.
initiateSettlement_claimChannelClosure ==
    /\ ist.pc = "claimChannelClosure"
    /\ IF claimable(schain, sblock)
       THEN /\ schain' = ClosedOnChain
            /\ sevents' = slisteners
            /\ ist' = [ist EXCEPT !.pc = "onClose", !.claimed = TRUE]
       ELSE /\ ist' = [ist EXCEPT !.pc = "threw"]
            /\ UNCHANGED <<schain, sevents>>
    /\ UNCHANGED <<sblock, srecord, slisteners, byCounterparty, sconstructor, notSet>>

\* initiateSettlement: await this.onClose() settles, the record is deleted.
initiateSettlement_onClose ==
    /\ ist.pc = "onClose"
    /\ srecord' = FALSE
    /\ ist' = [ist EXCEPT !.pc = "resolved"]
    /\ UNCHANGED <<schain, sblock, slisteners, sevents, byCounterparty, sconstructor, notSet>>

\* The ClosedChannel log reaches a subscription of onceClosed, which
\* resolves: the constructor's goes on to onClose, which issues db.del;
\* initiateSettlement's lets the pending branch go on.
onceClosed(listener) ==
    /\ listener \in sevents
    /\ sevents' = sevents \ {listener}
    /\ slisteners' = slisteners \ {listener}
    /\ IF listener = "constructor"
       THEN sconstructor' = [sconstructor EXCEPT !.onClose = @ + 1] /\ UNCHANGED ist
       ELSE ist' = [ist EXCEPT !.pc = "onClose"] /\ UNCHANGED sconstructor
    /\ UNCHANGED <<schain, sblock, srecord, byCounterparty, notSet>>

\* The status read of the constructor settles: on an uninitialised channel
\* this.onClose() is called, which issues db.del and is not awaited.
constructor_status ==
    /\ sconstructor.status
    /\ sconstructor' = [status |-> FALSE,
                        onClose |-> IF schain.status = "UNINITIALISED"
                                    THEN sconstructor.onClose + 1
                                    ELSE sconstructor.onClose]
    /\ UNCHANGED <<schain, sblock, srecord, slisteners, sevents, byCounterparty, ist,
                   notSet>>

\* The db.del of the constructor's onClose settles: the record is deleted.
constructor_onClose ==
    /\ sconstructor.onClose > 0
    /\ sconstructor' = [sconstructor EXCEPT !.onClose = @ - 1]
    /\ srecord' = FALSE
    /\ UNCHANGED <<schain, sblock, slisteners, sevents, byCounterparty, ist, notSet>>

\* A block is mined.
minedBlock ==
    /\ sblock < MaxBlockTime
    /\ sblock' = sblock + 1
    /\ UNCHANGED <<schain, srecord, slisteners, sevents, byCounterparty, ist, sconstructor, notSet>>

\* The counterparty initiates the closure of the open channel.
counterpartyInitiatesClosure ==
    /\ schain.status = "OPEN"
    /\ schain' = pendingClosure(sblock)
    /\ byCounterparty' = byCounterparty \cup {"initiated"}
    /\ UNCHANGED <<sblock, srecord, slisteners, sevents, ist, sconstructor, notSet>>

\* The counterparty claims the pending closure.
counterpartyClaimsClosure ==
    /\ claimable(schain, sblock)
    /\ schain' = ClosedOnChain
    /\ sevents' = slisteners
    /\ byCounterparty' = byCounterparty \cup {"claimed"}
    /\ UNCHANGED <<sblock, srecord, slisteners, ist, sconstructor, notSet>>

(***************************************************************************)
(* Part VIII.  WebRTCConnection                                            *)
(*                                                                         *)
(* One connection that starts on the relayed connection `conn` and may     *)
(* move to the WebRTC channel (a SimplePeer).  Its two generators, the one *)
(* `sink` hands to conn.sink and `source`, run the same loop; a generator  *)
(* advances when its consumer calls next() and when a promise it awaits    *)
(* has settled.  The events of the channel ('connect', 'error',            *)
(* 'iceTimeout'), the upgrade timer and the setImmediate callbacks run     *)
(* between these steps.  Time is the time of the timers, which advances in *)
(* steps of half the upgrade timeout from the moment the timer is set.     *)
(***************************************************************************)

RtcClockStep == WEBRTC_UPGRADE_TIMEOUT \div 2

RtcClockMax == MaxRtcTicks * RtcClockStep

Generators == {"sink", "source"}

\* the value of a stream's result once it is done
Undefined == 0

\* the n messages of a stream, in order
Messages(n) == [i \in 1..n |-> i]

\* A generator yields at most this often: what a generator that never ends
\* delivers is cut off here.
MaxDelivered == MaxMsgs + 1

\* the sink and source generators with the timer set on every use
armsTimeout_everyUse(webRTCTimeout) == TRUE

\* sink and source, on the first next() of the generator:
\*   if (this._webRTCTimeout == null) this._webRTCTimeout = setTimeout(...)
armsTimeout(webRTCTimeout) == webRTCTimeout = "null"

\* a timer set with setTimeout(fn, WEBRTC_UPGRADE_TIMEOUT) is due once the
\* timeout has elapsed
webRTCTimeoutDue(elapsed) == elapsed >= WEBRTC_UPGRADE_TIMEOUT

\* channel.on('connect'): if (this._webRTCTimeout != null) clearTimeout(...)
\* clearTimeout has no effect on a timer that has run.
clearTimeout(webRTCTimeout) ==
    IF webRTCTimeout = "armed" THEN "cleared" ELSE webRTCTimeout

\* The position of a generator after `while (!this._webRTCAvailable)` and
\* the `if (!this._webRTCStateKnown)` in it have been evaluated: the race of
\* the two promises, the await of the stream's promise, or what follows the
\* loop: in source the await of _switchPromise, in sink the generator's end.
whileNotAvailable(g, r) ==
    IF r.webRTCAvailable
    THEN IF g = "source" THEN "awaitSwitch" ELSE "done"
    ELSE IF ~r.webRTCStateKnown THEN "race" ELSE "awaitStream"

NewConnection ==
    [webRTCStateKnown |-> FALSE, webRTCAvailable |-> FALSE, migrated |-> FALSE,
     switchPromise |-> "pending", webRTCTimeout |-> "null", armedAt |-> -1,
     arms |-> 0, sinkThen |-> "none", asks |-> <<>>]

NewPeer ==
    [state |-> "connecting", connected |-> FALSE, errors |-> 0,
     iceTimeouts |-> 0, immediates |-> 0]

NewGenerator ==
    [pc |-> "created", received |-> FALSE, msg |-> Undefined, done |-> FALSE,
     pending |-> FALSE, askedKnown |-> FALSE, held |-> FALSE]

\* The caller's stream is read by the generator handed to conn.sink and,
\* after the migration, by the channel's sink.  It serves the next() calls
\* made of it in the order they were made: rtc.asks lists who has asked and
\* has not been served.  The queue after generator g has asked:
asksAfter(g, asks) == IF g = "sink" THEN Append(asks, "generator") ELSE asks

\* The ask of generator g is the one the stream serves next.  Nothing but
\* the source generator reads the relayed connection's source.
servedNext(g, asks) == g = "source" \/ (asks # <<>> /\ Head(asks) = "generator")

\* the queue after the ask of generator g has been served
asksServed(g, asks) == IF g = "sink" THEN Tail(asks) ELSE asks

\* The connection as its constructor leaves it: nothing known, no timer, the
\* source generator made but not begun, sink not called.  The relayed
\* connection and the caller's stream hold up to MaxMsgs messages between
\* them, the WebRTC channel one.
RtcInit ==
    /\ rtc = NewConnection
    /\ peer = NewPeer
    /\ rtcClock = 0
    /\ gen = [g \in Generators |->
                 IF g = "source" THEN NewGenerator
                 ELSE [NewGenerator EXCEPT !.pc = "none"]]
    /\ \E n \in 0..MaxMsgs, m \in 0..MaxMsgs :
          /\ n + m <= MaxMsgs
          /\ inp = [sink |-> Messages(n), source |-> Messages(m), channel |-> Messages(1)]
    /\ outp = [g \in Generators |-> <<>>]

RtcIdle ==
    /\ rtc = NewConnection
    /\ peer = NewPeer
    /\ rtcClock = 0
    /\ gen = [g \in Generators |->
                 IF g = "source" THEN NewGenerator
                 ELSE [NewGenerator EXCEPT !.pc = "none"]]
    /\ inp = [sink |-> <<>>, source |-> <<>>, channel |-> <<>>]
    /\ outp = [g \in Generators |-> <<>>]

\* endWebRTCUpgrade: the state is known, WebRTC is not available, the switch
\* promise resolved; channel.destroy() is left to setImmediate.
endWebRTCUpgrade ==
    [rtc EXCEPT !.webRTCStateKnown = TRUE, !.webRTCAvailable = FALSE,
                !.switchPromise = "resolved"]

\* The time passes.  It is followed while the timer is pending, which is
\* the only use the connection makes of it.
rtcTick ==
    /\ rtc.webRTCTimeout = "armed"
    /\ rtcClock < RtcClockMax
    /\ rtcClock' = rtcClock + RtcClockStep
    /\ UNCHANGED <<rtc, peer, gen, inp, outp, notRtc>>

\* channel 'connect': the timer, if one is set, is cleared; WebRTC is
\* available.
channel_connect ==
    /\ peer.state = "connecting"
    /\ peer' = [peer EXCEPT !.state = "connected", !.connected = TRUE]
    /\ rtc' = [rtc EXCEPT !.webRTCTimeout = clearTimeout(@),
                          !.webRTCStateKnown = TRUE, !.webRTCAvailable = TRUE,
                          !.switchPromise = "resolved"]
    /\ UNCHANGED <<rtcClock, gen, inp, outp, notRtc>>

\* channel 'iceTimeout', emitted once by a channel that is not connected
channel_iceTimeout ==
    /\ peer.state = "connecting" /\ peer.iceTimeouts = 0
    /\ peer' = [peer EXCEPT !.iceTimeouts = 1, !.immediates = @ + 1]
    /\ rtc' = endWebRTCUpgrade
    /\ UNCHANGED <<rtcClock, gen, inp, outp, notRtc>>

\* channel 'error', emitted once by a channel that is not destroyed
channel_error ==
    /\ peer.state # "destroyed" /\ peer.errors = 0
    /\ peer' = [peer EXCEPT !.errors = 1, !.immediates = @ + 1]
    /\ rtc' = endWebRTCUpgrade
    /\ UNCHANGED <<rtcClock, gen, inp, outp, notRtc>>

\* The upgrade timer runs endWebRTCUpgrade.
webRTCTimeout ==
    /\ rtc.webRTCTimeout = "armed"
    /\ webRTCTimeoutDue(rtcClock - rtc.armedAt)
    /\ rtc' = [endWebRTCUpgrade EXCEPT !.webRTCTimeout = "fired"]
    /\ peer' = [peer EXCEPT !.immediates = @ + 1]
    /\ UNCHANGED <<rtcClock, gen, inp, outp, notRtc>>

\* setImmediate(() => this.channel.destroy())
setImmediate_destroy ==
    /\ peer.immediates > 0
    /\ peer' = [peer EXCEPT !.immediates = @ - 1, !.state = "destroyed"]
    /\ UNCHANGED <<rtc, rtcClock, gen, inp, outp, notRtc>>

\* connection.sink(source) is called: the generator is handed to conn.sink
\* and the callback of _switchPromise registered.
sink ==
    /\ gen["sink"].pc = "none"
    /\ gen' = [gen EXCEPT !["sink"].pc = "created"]
    /\ rtc' = [rtc EXCEPT !.sinkThen = "registered"]
    /\ UNCHANGED <<peer, rtcClock, inp, outp, notRtc>>

\* The first next() of generator g, the first use of sink or of source: the
\* timer is set unless one has been, the first message of the stream is
\* asked for and the loop entered.
next_first(g) ==
    /\ gen[g].pc = "created"
    /\ rtc' = IF armsTimeout(rtc.webRTCTimeout)
              THEN [rtc EXCEPT !.webRTCTimeout = "armed", !.armedAt = rtcClock,
                               !.arms = @ + 1, !.asks = asksAfter(g, @)]
              ELSE [rtc EXCEPT !.asks = asksAfter(g, @)]
    /\ gen' = [gen EXCEPT ![g].pending = TRUE,
                          ![g].askedKnown = rtc.webRTCStateKnown,
                          ![g].pc = whileNotAvailable(g, rtc)]
    /\ UNCHANGED <<peer, rtcClock, inp, outp, notRtc>>

\* sourceFunction / streamSourceFunction: the next() asked of the stream has
\* settled, with a message or with the end of the stream.
sourceFunction(g) ==
    /\ gen[g].pending /\ gen[g].pc # "yield*"
    /\ servedNext(g, rtc.asks)
    /\ gen' = [gen EXCEPT ![g].pending = FALSE, ![g].received = TRUE,
                          ![g].msg = IF inp[g] = <<>> THEN Undefined ELSE Head(inp[g]),
                          ![g].done = (inp[g] = <<>>),
                          ![g].held = (inp[g] # <<>>),
                          ![g].askedKnown = (inp[g] # <<>> /\ @)]
    /\ inp' = [inp EXCEPT ![g] = IF @ = <<>> THEN @ ELSE Tail(@)]
    /\ rtc' = [rtc EXCEPT !.asks = asksServed(g, @)]
    /\ UNCHANGED <<peer, rtcClock, outp, notRtc>>

\* After Promise.race([sourcePromise, this._switchPromise.promise]): with a
\* message received the generator returns it, yields it and breaks, or asks
\* for the next one and yields it; without one it is back at the loop's
\* condition.
race_then(g) ==
    /\ gen[g].pc = "race"
    /\ gen[g].received \/ rtc.switchPromise = "resolved"
    /\ IF gen[g].received
       THEN IF gen[g].done /\ rtc.webRTCStateKnown /\ ~rtc.webRTCAvailable
            THEN /\ gen' = [gen EXCEPT ![g].received = FALSE, ![g].pc = "done"]
                 /\ UNCHANGED <<outp, rtc>>
            ELSE /\ Len(outp[g]) < MaxDelivered
                 /\ outp' = [outp EXCEPT ![g] = Append(@, <<gen[g].msg, "relayed">>)]
                 /\ IF gen[g].done
                    THEN /\ gen' = [gen EXCEPT ![g].received = FALSE,
                                               ![g].askedKnown = FALSE,
                                               ![g].held = FALSE,
                                               ![g].pc = "yielded, break"]
                         /\ UNCHANGED rtc
                    ELSE /\ gen' = [gen EXCEPT ![g].received = FALSE,
                                               ![g].pending = TRUE,
                                               ![g].askedKnown = rtc.webRTCStateKnown,
                                               ![g].held = FALSE,
                                               ![g].pc = "yielded"]
                         /\ rtc' = [rtc EXCEPT !.asks = asksAfter(g, @)]
       ELSE /\ gen' = [gen EXCEPT ![g].pc = whileNotAvailable(g, rtc)]
            /\ UNCHANGED <<outp, rtc>>
    /\ UNCHANGED <<peer, rtcClock, inp, notRtc>>

\* After `await sourcePromise`, the state being known and WebRTC not
\* available: at the end of the stream the generator returns, otherwise it
\* yields the message and goes on with `yield* source`.
awaitStream_then(g) ==
    /\ gen[g].pc = "awaitStream"
    /\ ~gen[g].pending
    /\ IF gen[g].done
       THEN /\ gen' = [gen EXCEPT ![g].pc = "done"]
            /\ UNCHANGED outp
       ELSE /\ Len(outp[g]) < MaxDelivered
            /\ outp' = [outp EXCEPT ![g] = Append(@, <<gen[g].msg, "relayed">>)]
            /\ gen' = [gen EXCEPT ![g].pc = "yield*", ![g].askedKnown = FALSE,
                                  ![g].held = FALSE]
    /\ UNCHANGED <<rtc, peer, rtcClock, inp, notRtc>>

\* next() of a generator that has yielded in the loop: the loop goes on, or
\* has been left with break.
next_yielded(g) ==
    /\ gen[g].pc \in {"yielded", "yielded, break"}
    /\ gen' = [gen EXCEPT ![g].pc =
                  IF gen[g].pc = "yielded"
                  THEN whileNotAvailable(g, rtc)
                  ELSE IF g = "source" THEN "awaitSwitch" ELSE "done"]
    /\ UNCHANGED <<rtc, peer, rtcClock, inp, outp, notRtc>>

\* next() of a generator that is at `yield* source`: the next message of the
\* stream is asked for.
next_delegated(g) ==
    /\ gen[g].pc = "yield*" /\ ~gen[g].pending
    /\ gen' = [gen EXCEPT ![g].pending = TRUE]
    /\ rtc' = [rtc EXCEPT !.asks = asksAfter(g, @)]
    /\ UNCHANGED <<peer, rtcClock, inp, outp, notRtc>>

\* The next() that `yield* source` has asked of the stream settles: the
\* message is yielded; at the end of the stream the generator is back at
\* the loop's condition.
delegated_then(g) ==
    /\ gen[g].pc = "yield*" /\ gen[g].pending
    /\ servedNext(g, rtc.asks)
    /\ IF inp[g] = <<>>
       THEN /\ gen' = [gen EXCEPT ![g].pending = FALSE,
                                  ![g].pc = whileNotAvailable(g, rtc)]
            /\ UNCHANGED <<inp, outp>>
       ELSE /\ Len(outp[g]) < MaxDelivered
            /\ outp' = [outp EXCEPT ![g] = Append(@, <<Head(inp[g]), "relayed">>)]
            /\ inp' = [inp EXCEPT ![g] = Tail(@)]
            /\ gen' = [gen EXCEPT ![g].pending = FALSE]
    /\ rtc' = [rtc EXCEPT !.asks = asksServed(g, @)]
    /\ UNCHANGED <<peer, rtcClock, notRtc>>

\* source, after `await this._switchPromise.promise`: the generator goes on
\* with the channel's iterator or returns.
awaitSwitch_then ==
    /\ gen["source"].pc = "awaitSwitch"
    /\ rtc.switchPromise = "resolved"
    /\ gen' = [gen EXCEPT !["source"].pc =
                  IF rtc.webRTCAvailable THEN "yield* channel" ELSE "done"]
    /\ UNCHANGED <<rtc, peer, rtcClock, inp, outp, notRtc>>

\* next() of source at `yield* this.channel[Symbol.asyncIterator]()`: a
\* message of the channel is yielded; the iterator of a destroyed channel is
\* at its end.
next_channel ==
    /\ gen["source"].pc = "yield* channel"
    /\ IF peer.state = "destroyed"
       THEN /\ gen' = [gen EXCEPT !["source"].pc = "done"]
            /\ UNCHANGED <<inp, outp>>
       ELSE /\ inp["channel"] # <<>>
            /\ Len(outp["source"]) < MaxDelivered
            /\ outp' = [outp EXCEPT !["source"] =
                           Append(@, <<Head(inp["channel"]), "webrtc">>)]
            /\ inp' = [inp EXCEPT !["channel"] = Tail(@)]
            /\ UNCHANGED gen
    /\ UNCHANGED <<rtc, peer, rtcClock, notRtc>>

\* sink, the callback of _switchPromise: with WebRTC available the caller's
\* stream is handed to the channel's sink, which asks it for its next
\* message.
sink_then ==
    /\ rtc.sinkThen = "registered"
    /\ rtc.switchPromise = "resolved"
    /\ rtc' = IF rtc.webRTCAvailable
              THEN [rtc EXCEPT !.migrated = TRUE, !.sinkThen = "sink(source)",
                               !.asks = Append(@, "channel")]
              ELSE [rtc EXCEPT !.sinkThen = "ran"]
    /\ UNCHANGED <<peer, rtcClock, gen, inp, outp, notRtc>>

\* toIterable.sink(this.channel)(source): the next() the channel's sink has
\* asked of the caller's stream settles.  The message is written to the
\* channel and the next one asked for; a message taken for a destroyed
\* channel is dropped, and the sink ends there or at the stream's end.
channel_sink ==
    /\ rtc.sinkThen = "sink(source)"
    /\ rtc.asks # <<>> /\ Head(rtc.asks) = "channel"
    /\ IF inp["sink"] = <<>>
       THEN /\ rtc' = [rtc EXCEPT !.sinkThen = "ran", !.asks = Tail(@)]
            /\ UNCHANGED <<inp, outp>>
       ELSE IF peer.state = "destroyed"
       THEN /\ rtc' = [rtc EXCEPT !.sinkThen = "ran", !.asks = Tail(@)]
            /\ inp' = [inp EXCEPT !["sink"] = Tail(@)]
            /\ UNCHANGED outp
       ELSE /\ Len(outp["sink"]) < MaxDelivered
            /\ outp' = [outp EXCEPT !["sink"] =
                           Append(@, <<Head(inp["sink"]), "webrtc">>)]
            /\ inp' = [inp EXCEPT !["sink"] = Tail(@)]
            /\ rtc' = [rtc EXCEPT !.asks = Append(Tail(@), "channel")]
    /\ UNCHANGED <<peer, rtcClock, gen, notRtc>>

\* The connection has not been closed: _destroyed is false as the
\* constructor sets it, close has not been called.
NewClose == [destroyed |-> FALSE, calls |-> 0, channelDestroy |-> 0, connClose |-> 0]

RtcCloseIdle == rtcClose = NewClose

\* get destroyed(): boolean { return this._destroyed }
destroyed(c) == c.destroyed

\* close() of a connection that is not destroyed: timeline.closed is set;
\* channel.destroy() is called, and this.conn.close() unless the connection
\* has migrated.  No statement of close assigns _destroyed.
closeConnection(c, migrated) ==
    [c EXCEPT !.channelDestroy = @ + 1,
              !.connClose = IF migrated THEN @ ELSE @ + 1]

\* connection.close(err) is called.
close ==
    /\ rtcClose.calls < MaxCloseCalls
    /\ IF destroyed(rtcClose)
       THEN /\ rtcClose' = [rtcClose EXCEPT !.calls = @ + 1]
            /\ UNCHANGED peer
       ELSE /\ rtcClose' = [closeConnection(rtcClose, rtc.migrated) EXCEPT !.calls = @ + 1]
            /\ peer' = [peer EXCEPT !.state = "destroyed"]
    /\ UNCHANGED <<rtc, rtcClock, gen, inp, outp, notRtcClose>>

(***************************************************************************)
(* Part IX.  PaymentChannel.contractCall                                   *)
(*                                                                         *)
(* Several calls of contractCall run side by side on one PaymentChannel.   *)
(* The one suspension point of a call is `await txObject.estimateGas`;     *)
(* what follows it up to the call of sendTransaction runs in one piece.    *)
(***************************************************************************)

ContractCalls == 1..NumContractCalls

\* contractCall that leaves this.nonce as it is
incrementNonce_skipped(n) == n

\* this.nonce = this.nonce + 1
incrementNonce(n) == n + 1

\* sendTransaction({ ..., nonce: this.nonce - 1, ... }), read after the
\* increment
sendTransactionNonce(n) == n - 1

IdleContractCall == [pc |-> "idle", nonce |-> -1]

\* this.nonce is what getTransactionCount returned when the module was made.
CcInit ==
    /\ thisNonce \in 0..1
    /\ ccall = [c \in ContractCalls |-> IdleContractCall]
    /\ sent = <<>>

CcIdle ==
    /\ thisNonce = 0
    /\ ccall = [c \in ContractCalls |-> IdleContractCall]
    /\ sent = <<>>

\* contractCall(txObject, value, cb) is called: estimateGas is awaited.
contractCall(c) ==
    /\ ccall[c].pc = "idle"
    /\ ccall' = [ccall EXCEPT ![c].pc = "estimateGas"]
    /\ UNCHANGED <<thisNonce, sent, notCc>>

\* estimateGas has settled.  When it rejects the call throws; otherwise
\* this.nonce is incremented and sendTransaction called with the nonce before
\* the increment.
contractCall_estimateGas(c) ==
    /\ ccall[c].pc = "estimateGas"
    /\ \E rejected \in BOOLEAN :
          IF rejected
          THEN /\ ccall' = [ccall EXCEPT ![c].pc = "threw"]
               /\ UNCHANGED <<thisNonce, sent>>
          ELSE /\ thisNonce' = incrementNonce(thisNonce)
               /\ ccall' = [ccall EXCEPT ![c].pc = "sendTransaction",
                                         ![c].nonce = sendTransactionNonce(thisNonce')]
               /\ sent' = Append(sent, sendTransactionNonce(thisNonce'))
    /\ UNCHANGED notCc

\* The promise of sendTransaction settles: cb is called with the receipt or
\* with the error, or the promise handed to the caller settles.
contractCall_then(c) ==
    /\ ccall[c].pc = "sendTransaction"
    /\ \E failed \in BOOLEAN :
          ccall' = [ccall EXCEPT ![c].pc = IF failed THEN "rejected" ELSE "receipt"]
    /\ UNCHANGED <<thisNonce, sent, notCc>>

(***************************************************************************)
(* Part X.  PaymentChannel.closeChannels                                   *)
(*                                                                         *)
(* closeChannels reads the keys of the restore transactions and calls      *)
(* closeChannel for each.  Of a call of closeChannel the steps that touch  *)
(* the restore transaction or settle its promise are kept: the receipt of  *)
(* the withdraw transaction, on which deleteChannel is called and not      *)
(* awaited, the write of the batch of that deleteChannel, and the          *)
(* settlement of the promise, at any time.                                 *)
(***************************************************************************)

ClosableChannels == 1..NumClosable

\* What Promise.all([promises]) waits for.  The array it is handed has one
\* element, the array `promises`, which is not a promise: Promise.all waits
\* for nothing and resolves with [promises].
promiseAllAwaits(promises) == {}

\* results.reduce((acc, value) => acc.iadd(value)) on results = [promises]:
\* reduce without an initial value returns the one element of a one-element
\* array and does not call the function: the result is the array of the
\* promises, not an amount.
reduceResults(promises) == [kind |-> "promises", amount |-> -1]

IdleCloseChannels ==
    [pc |-> "idle", keys |-> {}, promises |-> {},
     result |-> [kind |-> "none", amount |-> -1]]

\* a closeChannel that has not been called
NoClose == [state |-> "none", amount |-> 0, withdrawn |-> FALSE, deleting |-> FALSE]

\* Any set of channels has a restore transaction in the store.
ClsInit ==
    /\ restoreKeys \in SUBSET ClosableChannels
    /\ cls = IdleCloseChannels
    /\ closes = [c \in ClosableChannels |-> NoClose]

ClsIdle ==
    /\ restoreKeys = {}
    /\ cls = IdleCloseChannels
    /\ closes = [c \in ClosableChannels |-> NoClose]

\* closeChannels(): the key stream is created, over the restore
\* transactions the store holds.
closeChannels ==
    /\ cls.pc = "idle"
    /\ cls' = [cls EXCEPT !.pc = "stream", !.keys = restoreKeys]
    /\ UNCHANGED <<restoreKeys, closes, notCls>>

\* key stream 'data': promises.push(this.closeChannel(channelId))
closeChannels_data(c) ==
    /\ cls.pc = "stream"
    /\ c \in restoreKeys \ cls.promises
    /\ \A d \in restoreKeys \ cls.promises : c <= d
    /\ cls' = [cls EXCEPT !.promises = @ \cup {c}]
    /\ closes' = [closes EXCEPT ![c].state = "pending"]
    /\ UNCHANGED <<restoreKeys, notCls>>

\* key stream 'end': Promise.all([promises]) is called.
closeChannels_end ==
    /\ cls.pc = "stream"
    /\ restoreKeys \subseteq cls.promises
    /\ cls' = [cls EXCEPT !.pc = "Promise.all"]
    /\ UNCHANGED <<restoreKeys, closes, notCls>>

\* Promise.all settles once what it waits for has: on a rejection nothing
\* handles it and closeChannels stays pending; otherwise the result is
\* reduced and closeChannels resolves.
closeChannels_then ==
    /\ cls.pc = "Promise.all"
    /\ \A c \in promiseAllAwaits(cls.promises) : closes[c].state # "pending"
    /\ cls' = IF \E c \in promiseAllAwaits(cls.promises) : closes[c].state = "rejected"
              THEN [cls EXCEPT !.pc = "unhandled rejection"]
              ELSE [cls EXCEPT !.pc = "resolved", !.result = reduceResults(cls.promises)]
    /\ UNCHANGED <<restoreKeys, closes, notCls>>

\* closeChannel, resolve(this.withdraw(channelId)): the receipt of the
\* withdraw transaction has arrived and the inner withdraw calls
\* deleteChannel(channelId), which it does not await.
closeChannel_withdraw(c) ==
    /\ closes[c].state = "pending"
    /\ ~closes[c].withdrawn
    /\ closes' = [closes EXCEPT ![c].withdrawn = TRUE, ![c].deleting = TRUE]
    /\ UNCHANGED <<restoreKeys, cls, notCls>>

\* The batch of the deleteChannel that withdraw has called is written: it
\* deletes RestoreTransaction(channelId) with the rest of the record.
closeChannel_batchWritten(c) ==
    /\ closes[c].deleting
    /\ restoreKeys' = restoreKeys \ {c}
    /\ closes' = [closes EXCEPT ![c].deleting = FALSE]
    /\ UNCHANGED <<cls, notCls>>

\* A call of closeChannel settles.  After the withdraw transaction it
\* resolves with the balance withdraw has read, or rejects when the read
\* is answered notFound: the batch was written before the read, or the
\* store held no balance of the channel.  Without it the call rejects: on an
\* uninitialised channel after the deleteChannel it awaits has deleted the
\* record, on a channel in an unknown state or on a failed withdraw with
\* the record kept.
closeChannel_settled(c) ==
    /\ closes[c].state = "pending"
    /\ IF closes[c].withdrawn
       THEN /\ \E amount \in 0..MaxAmount, notFound \in BOOLEAN :
                  /\ closes' = [closes EXCEPT
                                   ![c].state = IF notFound THEN "rejected" ELSE "resolved",
                                   ![c].amount = IF notFound THEN 0 ELSE amount]
            /\ UNCHANGED restoreKeys
       ELSE /\ closes' = [closes EXCEPT ![c].state = "rejected"]
            /\ \E uninitialized \in BOOLEAN :
                  restoreKeys' = IF uninitialized THEN restoreKeys \ {c} ELSE restoreKeys
    /\ UNCHANGED <<cls, notCls>>

(***************************************************************************)
(* Specifications.                                                         *)
(***************************************************************************)

\* The hop at work, the connector's nonce store untouched.
Init == PktInit /\ NonceIdle /\ PathIdle /\ FacIdle /\ CloseIdle /\ WdIdle /\ SetIdle /\ RtcIdle /\ CcIdle /\ ClsIdle /\ ConcIdle /\ RtcCloseIdle

\* The connector's channel at work, the hop untouched.
InitNonce == NonceInit /\ PktIdle /\ PathIdle /\ FacIdle /\ CloseIdle /\ WdIdle /\ SetIdle /\ RtcIdle /\ CcIdle /\ ClsIdle /\ ConcIdle /\ RtcCloseIdle

\* One packet on its way, the single hop of Part I and the connector untouched.
InitPath == PathInit /\ PktIdle /\ NonceIdle /\ FacIdle /\ CloseIdle /\ WdIdle /\ SetIdle /\ RtcIdle /\ CcIdle /\ ClsIdle /\ ConcIdle /\ RtcCloseIdle

\* The two parties' connectors at work, the rest untouched.
InitFactory == FacInit /\ PktIdle /\ NonceIdle /\ PathIdle /\ CloseIdle /\ WdIdle /\ SetIdle /\ RtcIdle /\ CcIdle /\ ClsIdle /\ ConcIdle /\ RtcCloseIdle

\* The node about to close a channel, the rest untouched.
InitClose == CloseInit /\ PktIdle /\ NonceIdle /\ PathIdle /\ FacIdle /\ WdIdle /\ SetIdle /\ RtcIdle /\ CcIdle /\ ClsIdle /\ ConcIdle /\ RtcCloseIdle

\* Concurrent calls: the callbacks of different calls interleave freely.
Next ==
    \/ \E t \in Tasks : forwardTransform(t)
    \/ \E t \in Tasks : hasTag_get(t)
    \/ \E t \in Tasks : hasTag_put(t)
    \/ \E t \in Tasks : pubKeyToPeerId_cb(t)
    \/ \E t \in Tasks : getChannel_cb(t)
    \/ \E t \in Tasks : setChannel_cb(t)
    \/ \E t \in Tasks : transfer_cb(t)
    \/ \E c \in ChannelIds : settledOnChain(c)
    \/ \E c \in ChannelIds : withdrawnOnChain(c)

Spec == Init /\ [][Next]_vars

\* Sequential calls: a call starts only when no other call is in flight.
forwardTransformSeq(t) ==
    /\ \A u \in Tasks : ~InFlight(u)
    /\ forwardTransform(t)

NextSeq ==
    \/ \E t \in Tasks : forwardTransformSeq(t)
    \/ \E t \in Tasks : hasTag_get(t)
    \/ \E t \in Tasks : hasTag_put(t)
    \/ \E t \in Tasks : pubKeyToPeerId_cb(t)
    \/ \E t \in Tasks : getChannel_cb(t)
    \/ \E t \in Tasks : setChannel_cb(t)
    \/ \E t \in Tasks : transfer_cb(t)
    \/ \E c \in ChannelIds : settledOnChain(c)
    \/ \E c \in ChannelIds : withdrawnOnChain(c)

SpecSeq == Init /\ [][NextSeq]_vars

\* Concurrent calls of testAndSetNonce.
NextNonce ==
    \/ \E c \in Callers : testAndSetNonce(c)
    \/ \E c \in Callers : testAndSetNonce_get(c)
    \/ \E c \in Callers : testAndSetNonce_put(c)

SpecNonce == InitNonce /\ [][NextNonce]_vars

\* Sequential calls of testAndSetNonce: each call is awaited before the next.
testAndSetNonceSeq(c) ==
    /\ \A d \in Callers : ~CallerInFlight(d)
    /\ testAndSetNonce(c)

NextNonceSeq ==
    \/ \E c \in Callers : testAndSetNonceSeq(c)
    \/ \E c \in Callers : testAndSetNonce_get(c)
    \/ \E c \in Callers : testAndSetNonce_put(c)

SpecNonceSeq == InitNonce /\ [][NextNonceSeq]_vars

\* One packet from createPacket to its destination.
NextPath ==
    \/ \E n \in 2..MaxPathLen : createPacket(n)
    \/ pathTransfer_cb
    \/ pathGetChannel_cb
    \/ pathSetChannel_cb

SpecPath == InitPath /\ [][NextPath]_vars

\* Calls of create and isOpen at either party, one after the other, with the
\* responder's side of the handshake and the callbacks running beside them.
NextFactory ==
    \/ \E n \in Parties : isOpen(n)
    \/ \E n \in Parties : create(n)
    \/ isOpen_onChain
    \/ isOpen_offChain
    \/ isOpen_then
    \/ isOpen_onClose
    \/ create_get
    \/ create_increaseFunds
    \/ handleOpeningRequest
    \/ handleOpeningRequest_increaseFunds
    \/ create_sign
    \/ create_openChannel
    \/ create_put
    \/ \E n \in Parties : onOpen(n)
    \/ \E opener, counterParty \in Accounts : OpenedChannel(opener, counterParty)
    \/ \E n \in Parties : onceOpen_return(n)
    \/ \E n \in Parties : getAll(n)
    \/ \E n \in Parties : Channel_status(n)
    \/ \E n \in Parties : Channel_onClose(n)
    \/ initiateChannelClosure

SpecFactory == InitFactory /\ [][NextFactory]_vars

\* create at a party, the counterparty's handling of the opening request, and
\* one isOpen running beside them at the party, for as long as the status
\* reads of the Channel constructors have not settled.
NextFactoryConcurrent ==
    \/ \E n \in Parties : create(n)
    \/ isOpen_onChain
    \/ isOpen_offChain
    \/ isOpen_then
    \/ isOpen_onClose
    \/ create_get
    \/ create_increaseFunds
    \/ handleOpeningRequest
    \/ handleOpeningRequest_increaseFunds
    \/ create_sign
    \/ create_openChannel
    \/ create_put
    \/ \E n \in Parties : onOpen(n)
    \/ \E n \in Parties : concurrent_isOpen(n)
    \/ concurrent_onChain
    \/ concurrent_offChain
    \/ concurrent_then
    \/ concurrent_onClose

SpecFactoryConcurrent == InitFactory /\ [][NextFactoryConcurrent]_vars

\* One call of closeChannel, with the clock, the timer, the chain's event and
\* the counterparty beside it.
NextClose ==
    \/ tick
    \/ closeChannel
    \/ closeChannel_channels
    \/ closeChannel_deleteChannel
    \/ closeChannel_hasMoreRecent
    \/ askCounterpartyToCloseChannel_get
    \/ askCounterpartyToCloseChannel_findPeer
    \/ askCounterpartyToCloseChannel_dialProtocol
    \/ timeout
    \/ submitSettlementTransaction_getLastTransaction
    \/ submitSettlementTransaction_contractCall
    \/ counterpartySettles
    \/ emitClosed

SpecClose == InitClose /\ [][NextClose]_vars

\* The two places where a node finds a channel uninitialised, side by side:
\* a node about to close a channel of the payment-channel module, and a
\* Channel of the connector that has just been built from the record its
\* node holds, the connector's chain in any state.
InitPrune == CloseInit /\ ConstructedInit /\ PktIdle /\ NonceIdle /\ PathIdle /\ FacIdle /\ WdIdle /\ RtcIdle /\ CcIdle /\ ClsIdle /\ ConcIdle /\ RtcCloseIdle

\* closeChannel with all that runs beside it, and the status read of the
\* Channel constructor with the db.del it issues.
NextPrune ==
    \/ NextClose
    \/ constructor_status
    \/ constructor_onClose

SpecPrune == InitPrune /\ [][NextPrune]_vars

\* The same with the scheduling of the runtime: time passes, a timer that is
\* due runs, a pending callback or event is delivered.  Nothing obliges the
\* node to call closeChannel or the counterparty to settle.
FairClose ==
    /\ WF_vars(tick)
    /\ WF_vars(timeout)
    /\ WF_vars(closeChannel_channels)
    /\ WF_vars(closeChannel_deleteChannel)
    /\ WF_vars(closeChannel_hasMoreRecent)
    /\ WF_vars(askCounterpartyToCloseChannel_get)
    /\ WF_vars(askCounterpartyToCloseChannel_findPeer)
    /\ WF_vars(askCounterpartyToCloseChannel_dialProtocol)
    /\ WF_vars(submitSettlementTransaction_getLastTransaction)
    /\ WF_vars(submitSettlementTransaction_contractCall)
    /\ WF_vars(emitClosed)

SpecCloseFair == InitClose /\ [][NextClose]_vars /\ FairClose

\* The node about to withdraw from a channel, the rest untouched.
InitWithdraw == WdInit /\ PktIdle /\ NonceIdle /\ PathIdle /\ FacIdle /\ CloseIdle /\ SetIdle /\ RtcIdle /\ CcIdle /\ ClsIdle /\ ConcIdle /\ RtcCloseIdle

\* One call of withdraw, with the blocks mined and the close listeners
\* registered beside it.
NextWithdraw ==
    \/ \E c \in StoreChannelIds : registerSettlementListener(c)
    \/ \E c \in StoreChannelIds : withdraw(c)
    \/ withdraw_channels
    \/ withdraw_getBlock
    \/ withdraw_wait
    \/ newBlockHeaders
    \/ withdraw_unsubscribe
    \/ withdraw_restoreTx
    \/ withdraw_contractCall
    \/ withdraw_deleteChannel
    \/ withdraw_onChainBalance

SpecWithdraw == InitWithdraw /\ [][NextWithdraw]_vars

\* A party about to settle its channel, the rest untouched.
InitSettlement == SetInit /\ PktIdle /\ NonceIdle /\ PathIdle /\ FacIdle /\ CloseIdle /\ WdIdle /\ RtcIdle /\ CcIdle /\ ClsIdle /\ ConcIdle /\ RtcCloseIdle

\* One call of initiateSettlement, with the blocks, the chain's events and
\* the counterparty beside it.
NextSettlement ==
    \/ initiateSettlement
    \/ initiateSettlement_status
    \/ initiateSettlement_initiateChannelClosure
    \/ initiateSettlement_getChannel
    \/ initiateSettlement_waitFor
    \/ initiateSettlement_claimChannelClosure
    \/ initiateSettlement_onClose
    \/ \E l \in {"constructor", "initiateSettlement"} : onceClosed(l)
    \/ constructor_status
    \/ constructor_onClose
    \/ minedBlock
    \/ counterpartyInitiatesClosure
    \/ counterpartyClaimsClosure

SpecSettlement == InitSettlement /\ [][NextSettlement]_vars

\* The same with the scheduling of the runtime and of the chain: blocks are
\* mined, transactions confirmed, pending callbacks and events delivered.
\* Nothing obliges the counterparty to act.
FairSettlement ==
    /\ WF_vars(minedBlock)
    /\ WF_vars(initiateSettlement_status)
    /\ WF_vars(initiateSettlement_initiateChannelClosure)
    /\ WF_vars(initiateSettlement_getChannel)
    /\ WF_vars(initiateSettlement_waitFor)
    /\ WF_vars(initiateSettlement_claimChannelClosure)
    /\ WF_vars(initiateSettlement_onClose)
    /\ \A l \in {"constructor", "initiateSettlement"} : WF_vars(onceClosed(l))
    /\ WF_vars(constructor_status)
    /\ WF_vars(constructor_onClose)

SpecSettlementFair == InitSettlement /\ [][NextSettlement]_vars /\ FairSettlement

\* The node's store at work, the rest untouched.
InitStore == StoreInit /\ PktIdle /\ NonceIdle /\ PathIdle /\ FacIdle /\ CloseIdle /\ SetIdle /\ RtcIdle /\ CcIdle /\ ClsIdle /\ ConcIdle /\ RtcCloseIdle

\* Calls of getLastTransaction, submitSettlementTransaction and
\* deleteChannel, one after the other.
NextStore ==
    \/ \E c \in StoreChannelIds : getLastTransaction(c)
    \/ \E c \in StoreChannelIds : submitSettlementTransaction(c)
    \/ getLastTransaction_get
    \/ getLastTransaction_fromBuffer
    \/ submitSettlementTransaction_then
    \/ \E c \in StoreChannelIds : deleteChannel(c)
    \/ deleteChannel_end

SpecStore == InitStore /\ [][NextStore]_vars

InitWebRTC == RtcInit /\ PktIdle /\ NonceIdle /\ PathIdle /\ FacIdle /\ CloseIdle /\ WdIdle /\ SetIdle /\ CcIdle /\ ClsIdle /\ ConcIdle /\ RtcCloseIdle

\* One WebRTCConnection: its two generators and their consumers, the events
\* of the channel, the timer and the time.
NextWebRTC ==
    \/ rtcTick
    \/ channel_connect
    \/ channel_iceTimeout
    \/ channel_error
    \/ webRTCTimeout
    \/ setImmediate_destroy
    \/ sink
    \/ \E g \in Generators : next_first(g)
    \/ \E g \in Generators : sourceFunction(g)
    \/ \E g \in Generators : race_then(g)
    \/ \E g \in Generators : awaitStream_then(g)
    \/ \E g \in Generators : next_yielded(g)
    \/ \E g \in Generators : next_delegated(g)
    \/ \E g \in Generators : delegated_then(g)
    \/ awaitSwitch_then
    \/ next_channel
    \/ sink_then
    \/ channel_sink

SpecWebRTC == InitWebRTC /\ [][NextWebRTC]_vars

\* One WebRTCConnection that is closed, once or again, between the events of
\* the channel and the migration of sink.
NextWebRTCClose ==
    \/ channel_connect
    \/ channel_iceTimeout
    \/ channel_error
    \/ setImmediate_destroy
    \/ sink
    \/ sink_then
    \/ close

SpecWebRTCClose == InitWebRTC /\ [][NextWebRTCClose]_vars

InitContractCall == CcInit /\ PktIdle /\ NonceIdle /\ PathIdle /\ FacIdle /\ CloseIdle /\ WdIdle /\ SetIdle /\ RtcIdle /\ ClsIdle /\ ConcIdle /\ RtcCloseIdle

\* Calls of contractCall, in any interleaving.
NextContractCall ==
    \/ \E c \in ContractCalls : contractCall(c)
    \/ \E c \in ContractCalls : contractCall_estimateGas(c)
    \/ \E c \in ContractCalls : contractCall_then(c)

SpecContractCall == InitContractCall /\ [][NextContractCall]_vars

InitCloseChannels == ClsInit /\ PktIdle /\ NonceIdle /\ PathIdle /\ FacIdle /\ CloseIdle /\ WdIdle /\ SetIdle /\ RtcIdle /\ CcIdle /\ ConcIdle /\ RtcCloseIdle

\* One call of closeChannels and the calls of closeChannel it makes.
NextCloseChannels ==
    \/ closeChannels
    \/ \E c \in ClosableChannels : closeChannels_data(c)
    \/ closeChannels_end
    \/ closeChannels_then
    \/ \E c \in ClosableChannels : closeChannel_withdraw(c)
    \/ \E c \in ClosableChannels : closeChannel_batchWritten(c)
    \/ \E c \in ClosableChannels : closeChannel_settled(c)

SpecCloseChannels == InitCloseChannels /\ [][NextCloseChannels]_vars

(***************************************************************************)
(* Properties.                                                             *)
(***************************************************************************)

Started(t) == task[t].pc # "idle"
Accepted(t) == task[t].pc \in {"transfer", "forwarded", "delivered"}
Succeeded(t) == task[t].pc \in {"forwarded", "delivered"}
ChannelOf(t) == getId(SelfAddress, task[t].sender)

\* A call that has thrown stays as it is: its cb is never invoked and it
\* returns no packet.
ThrewIsFinal == \A t \in Tasks : task[t].pc = "threw" => task'[t] = task[t]

\* C1: forwardTransform applied sequentially twice to the same packet at the
\* same hop succeeds at most once: of two calls for the same packet at most
\* one passes the replay guard; a call that finds the packet's tag in the
\* store is rejected (it throws in hasTag), returns no packet afterwards, and
\* changes neither the tag store, the pending transactions nor any channel
\* record (index, currentValue).
C1_ReplayRejected ==
    /\ [](\A t, u \in Tasks :
            (t # u /\ Started(t) /\ Started(u) /\ task[t].secret = task[u].secret)
                => ~(task[t].passedTag /\ task[u].passedTag))
    /\ [][\A t \in Tasks :
            (/\ task[t].pc = "hasTag.get"
             /\ task'[t].pc # "hasTag.get"
             /\ deriveTagParameters(task[t].secret) \in tagStore)
                => /\ task'[t].pc = "threw"
                   /\ task'[t].at = "hasTag"
                   /\ UNCHANGED <<tagStore, pendingTx, chanRecord>>]_vars
    /\ [][ThrewIsFinal]_vars

\* C1 witness: the same packet was handed in twice; the first call returned
\* a packet and the second was rejected by the replay guard.
C1_Witness ==
    \E t, u \in Tasks :
        /\ t # u
        /\ task[t].secret = task[u].secret
        /\ Succeeded(t)
        /\ task[u].pc = "threw" /\ task[u].at = "hasTag"

\* C2: of two concurrent forwardTransform calls for the same packet (same
\* replay tag) never do both pass the replay guard.
C2_NeverBothPass ==
    \A t, u \in Tasks :
        (t # u /\ Started(t) /\ Started(u) /\ task[t].secret = task[u].secret)
            => ~(task[t].passedTag /\ task[u].passedTag)

Finished(c) == caller[c].pc \in {"resolved", "rejected"}
SameKey(c, d) == caller[c].pc # "idle" /\ caller[d].pc # "idle" /\ CallerKey(c) = CallerKey(d)

\* C3: on one channel testAndSetNonce(signature) succeeds the first time it
\* is called with a signature and fails on every later call with the same
\* signature: of the calls made with one signature on one channel exactly
\* the first succeeds (the key is in the store once a call has ended, no two
\* calls with the same key succeed, and a call fails only if another call
\* with the same key has succeeded, with 'Nonces must not be used twice.');
\* a failing call leaves the nonce set unchanged.
C3_NonceUniqueness ==
    /\ [](\A c \in Callers :
            /\ Finished(c) => CallerKey(c) \in nonceStore
            /\ caller[c].pc = "rejected" =>
                  /\ caller[c].err = "Nonces must not be used twice."
                  /\ \E d \in Callers \ {c} : SameKey(c, d) /\ caller[d].pc = "resolved"
            /\ \A d \in Callers \ {c} :
                  (SameKey(c, d) /\ Finished(c) /\ Finished(d))
                      => ~(caller[c].pc = "resolved" /\ caller[d].pc = "resolved"))
    /\ [][\A c \in Callers :
            (caller[c].pc # "rejected" /\ caller'[c].pc = "rejected")
                => nonceStore' = nonceStore]_vars

\* C3 witness: a signature was set, another signature was set on the same
\* channel, and a further call with the first signature failed.
C3_Witness ==
    \E c, d, e \in Callers :
        /\ caller[c].pc = "resolved" /\ caller[d].pc = "resolved"
        /\ caller[c].channelId = caller[d].channelId
        /\ caller[c].signature # caller[d].signature
        /\ caller[e].pc = "rejected" /\ SameKey(c, e)

\* C4: of two concurrent testAndSetNonce calls with the same signature on the
\* same channel exactly one returns success: when both have ended, one has
\* succeeded and the other has failed.
C4_NonceAtomic ==
    \A c, d \in Callers :
        (c # d /\ SameKey(c, d) /\ Finished(c) /\ Finished(d))
            => \/ caller[c].pc = "resolved" /\ caller[d].pc = "rejected"
               \/ caller[c].pc = "rejected" /\ caller[d].pc = "resolved"

\* C5: over a sequence of forwardTransform calls every accepted embedded
\* transaction raises the channel's stored index by exactly one: whenever a
\* channel record is written, its new index is the previous index plus one.
C5_IndexMonotone ==
    [][\A c \in ChannelIds :
        chanRecord'[c] # chanRecord[c]
            => chanRecord'[c].index = chanRecord[c].index + 1]_vars

\* C5 witness: two transactions have been accepted on one channel in turn.
C5_Witness == \E c \in ChannelIds : chanRecord[c].index = 2

\* C6: between a call's channel read (getChannel) and its persist
\* (setChannel) no other call updates that channel's record, and two
\* embedded transactions carrying the same index are never both accepted on
\* one channel.
C6_ChannelSerialized ==
    /\ [][\A t \in Tasks :
            (task[t].pc = "setChannel" /\ task'[t].pc = "setChannel")
                => chanRecord'[ChannelOf(t)] = chanRecord[ChannelOf(t)]]_vars
    /\ [](\A t, u \in Tasks :
            (t # u /\ Accepted(t) /\ Accepted(u) /\ task[t].sender = task[u].sender)
                => task[t].txIndex # task[u].txIndex)

\* C7: an embedded transaction that yields received < RELAY_FEE, or whose
\* index is not the stored index plus one, makes forwardTransform fail with
\* the channel record unchanged and no packet returned: the validation step
\* either throws, leaving every channel record as it is, or goes on to
\* setChannel, and it goes on only with a transaction that pays at least
\* RELAY_FEE and carries the stored index plus one.
C7_InvalidTransactionRejected ==
    /\ [][\A t \in Tasks :
            (task[t].pc = "getChannel" /\ task'[t].pc # "getChannel")
                => /\ task'[t].pc \in {"setChannel", "threw"}
                   /\ task'[t].pc = "threw" => chanRecord' = chanRecord
                   /\ task'[t].pc = "setChannel" =>
                         /\ chanRecord[ChannelOf(t)] # NoRecord
                         /\ getEmbeddedMoney(task'[t].txValue, task[t].sender,
                                chanRecord[ChannelOf(t)].currentValue) >= RELAY_FEE
                         /\ task'[t].txIndex = chanRecord[ChannelOf(t)].index + 1]_vars
    /\ [][ThrewIsFinal]_vars

\* C7 witness: a call has been rejected for an insufficient fee, another for
\* what the validation reports as a general error, on a channel that has a
\* record.
C7_Witness ==
    \E t, u \in Tasks :
        /\ task[t].pc = "threw" /\ task[t].at = "getChannel"
        /\ task[t].err = "Bad transaction."
        /\ task[u].pc = "threw" /\ task[u].at = "getChannel"
        /\ task[u].err = "General error."
        /\ \A c \in ChannelIds : chanRecord[c] # NoRecord

\* Nothing but MAC failures so far.
OnlyMacFailures ==
    \A t \in Tasks :
        task[t].pc = "idle" \/ (task[t].pc = "threw" /\ task[t].at = "verify")

\* Nothing but failed validations of the embedded transaction so far.
OnlyValidationFailures ==
    \A t \in Tasks :
        task[t].pc = "idle" \/ (task[t].pc = "threw" /\ task[t].at = "getChannel")

NoTransferAccepted == \A c \in ChannelIds : chanRecord[c].index <= 0

\* C8: MAC verification precedes every state change: as long as every packet
\* handled so far has failed MAC verification, the replay-tag store and the
\* pending-transaction store are empty and no channel record has changed.
C8_MacBeforeStateChange ==
    OnlyMacFailures => (tagStore = {} /\ pendingTx = {} /\ NoTransferAccepted)

\* C9: a forwardTransform that fails in the validation of the embedded
\* transaction changes nothing but the replay-tag store: as long as every
\* packet handled so far has failed there, no pending transaction is
\* registered and no channel record has changed.
C9_OnlyTagOnFailure ==
    OnlyValidationFailures => (pendingTx = {} /\ NoTransferAccepted)

\* The on-chain states in which a channel is open or its closure is pending.
OpenOrPendingClosure(state) ==
    state \in {CHANNEL_STATE_FUNDED, CHANNEL_STATE_WITHDRAWABLE}

\* C10: forwardTransform accepts an embedded transaction only if the channel
\* to the previous hop is Open or PendingClosure on-chain: whenever a call
\* goes on to persist the transaction, or persists it, the channel is in
\* such a state.
C10_AcceptOnlyOpenChannel ==
    [][\A t \in Tasks :
        ((task[t].pc = "getChannel" /\ task'[t].pc = "setChannel")
         \/ (task[t].pc = "setChannel" /\ task'[t].pc # "setChannel"))
            => OpenOrPendingClosure(chainState[ChannelOf(t)])]_vars

\* The packet has reached the destination of a path of at least two peers,
\* every relay before it having accepted and forwarded it.
AtDestination == pathLen >= 2 /\ pkt.hop = pathLen

\* C11: a packet built by createPacket over a path of n >= 2 peers and
\* forwarded by every relay with received - RELAY_FEE reaches the destination
\* with an embedded value of 0, and the destination accepts it: it does not
\* throw, and it asks for no transfer.
C11_DestinationDelivers ==
    AtDestination =>
        /\ pkt.pc # "threw"
        /\ pkt.pc \in {"setChannel", "delivered"} => pkt.receivedMoney = 0
        /\ pkt.pc # "transfer"

\* C12: at every hop that accepts a packet and is not its destination, the
\* amount it asks the payment-channel module to transfer to the next hop is
\* the amount it received less RELAY_FEE (received = sent + RELAY_FEE), the
\* amount received being the embedded money of the transaction against the
\* record read, and the amount sent is never negative.
C12_ForwardedFee ==
    /\ [](\A t \in Tasks :
            task[t].pc = "transfer" =>
                /\ task[t].receivedMoney = task[t].forwardedFee + RELAY_FEE
                /\ task[t].forwardedFee >= 0)
    /\ [][\A t \in Tasks :
            (task[t].pc = "getChannel" /\ task'[t].pc = "setChannel")
                => task'[t].receivedMoney =
                        getEmbeddedMoney(task'[t].txValue, task[t].sender,
                                         chanRecord[ChannelOf(t)].currentValue)]_vars
    /\ [][\A t \in Tasks :
            (task[t].pc = "setChannel" /\ task'[t].pc = "transfer")
                => task'[t].receivedMoney = task[t].receivedMoney]_vars

\* C12 witness: a hop has received more than the fee and asks for the
\* transfer of the rest.
C12_Witness ==
    \E t \in Tasks :
        /\ task[t].pc = "transfer"
        /\ task[t].receivedMoney > RELAY_FEE
        /\ task[t].forwardedFee > 0

\* C13: after any sequence of accepted embedded transactions the stored
\* currentValue of a channel lies between 0 and the channel's balance.
C13_ValueWithinBalance ==
    \A c \in ChannelIds :
        chanRecord[c] # NoRecord =>
            (0 <= chanRecord[c].currentValue /\ chanRecord[c].currentValue <= ChannelBalance)

IsOpenCall == fcall.op = "isOpen"
CreateCall == fcall.op = "create"

\* C14: isOpen(counterparty) returns true if and only if the on-chain status
\* of the channel is Open or PendingClosure and a local channel record for
\* the counterparty exists, each as isOpen reads it; and once create has
\* returned a channel at both parties, every call of isOpen that ends, at
\* either party, returns true.
C14_IsOpenIff ==
    /\ []((IsOpenCall /\ CallEnded) =>
            (fcall.result = "true"
                <=> (fcall.pc = "returned" /\ fcall.onChain = "yes" /\ fcall.offChain = "yes")))
    /\ [][(fcall.pc = "isOpen" /\ fcall.onChain = "none" /\ fcall'.onChain # "none")
            => (fcall'.onChain = "yes" <=> chain.status \in {"OPEN", "PENDING"})]_vars
    /\ [][(fcall.pc = "isOpen" /\ fcall.offChain = "none" /\ fcall'.offChain # "none")
            => (fcall'.offChain = "yes" <=> localChannel[fcall.node])]_vars
    /\ []((createdBy = Parties /\ IsOpenCall /\ CallEnded) => fcall.result = "true")

\* C15: isOpen's mismatch policy.  Having read the channel as not open
\* on-chain and the local record as present, isOpen deletes the record and
\* returns false without raising an error; having read the channel as open
\* on-chain and no local record, isOpen fails with an error and changes
\* neither the local store nor the chain.
C15_MismatchPolicy ==
    /\ [][(fcall.pc = "isOpen" /\ fcall'.pc # "isOpen"
           /\ fcall.onChain = "no" /\ fcall.offChain = "yes")
            => (fcall'.pc = "onClose" /\ fcall'.err = "none")]_vars
    /\ [][(fcall.pc = "onClose" /\ fcall'.pc # "onClose")
            => /\ ~localChannel'[fcall.node]
               /\ IsOpenCall =>
                     (fcall'.pc = "returned" /\ fcall'.result = "false"
                      /\ fcall'.err = "none")]_vars
    /\ [][(fcall.pc = "isOpen" /\ fcall'.pc # "isOpen"
           /\ fcall.onChain = "yes" /\ fcall.offChain = "no")
            => (fcall'.pc = "threw" /\ fcall'.err # "none"
                /\ UNCHANGED <<localChannel, chain, tokens>>)]_vars

\* C15 witness: isOpen has found a record of a channel that is not open
\* on-chain, deleted it and returned false.
C15_Witness ==
    /\ IsOpenCall /\ fcall.pc = "returned" /\ fcall.result = "false"
    /\ fcall.onChain = "no" /\ fcall.offChain = "yes"
    /\ ~localChannel[fcall.node]

\* C16: create for a counterparty whose channel is open on-chain and present
\* in the local store, at the call and whenever the call reads the store,
\* changes neither store: no step of the call changes the chain, the token
\* balances or the local store, the call never gets to the funding, the
\* signing, the openChannel transaction or the put of the record, and it
\* returns the channel built from the stored record.
C16_CreateOnOpenIsNoOp ==
    /\ [][(CreateCall /\ fcall.openAtCall /\ fcall' # fcall /\ ~CallEnded)
            => UNCHANGED <<chain, tokens, localChannel>>]_vars
    /\ []((CreateCall /\ fcall.openAtCall
           /\ fcall.offChain # "no" /\ fcall.err # "NotFoundError") =>
            /\ fcall.pc \in {"isOpen", "db.get", "returned"}
            /\ fcall.deposited = -1
            /\ fcall.pc = "returned" => fcall.result = "channel")

\* C16 witness: create, called with a channel balance on a channel that is
\* open and on record, has returned the channel.
C16_Witness ==
    /\ CreateCall /\ fcall.openAtCall /\ fcall.bal # NoBalance
    /\ fcall.pc = "returned" /\ fcall.result = "channel"

\* What party n has deposited in the handshake: as the initiator, in create;
\* as the responder, in handleOpeningRequest.
DepositOf(n) == IF fcall.node = n THEN fcall.deposited ELSE handler.deposited

\* The opening handshake is through: the initiator has funded and got the
\* signed channel back from the responder.
HandshakeDone ==
    /\ CreateCall /\ fcall.deposited >= 0
    /\ fcall.pc \in {"openChannel", "db.put", "returned"}
    /\ handler.pc = "yielded" /\ handler.bal = fcall.bal

\* C17: in an opening handshake for the channel balance {balance, balance_a}
\* party A (party 1, the smaller address) deposits exactly balance_a and
\* party B exactly balance - balance_a, so that the deposits sum to balance.
C17_DepositsSumToBalance ==
    HandshakeDone =>
        /\ DepositOf(1) = fcall.bal.balance_a
        /\ DepositOf(2) = fcall.bal.balance - fcall.bal.balance_a
        /\ DepositOf(1) + DepositOf(2) = fcall.bal.balance

Cooperative == closing.branch = "cooperative"

\* C18: in closeChannel on a funded channel whose counterparty holds a more
\* recent transaction, the node's own settlement transaction is not
\* submitted before SETTLEMENT_TIMEOUT has elapsed: the timer's callback,
\* the only caller of submitSettlementTransaction on this branch, runs no
\* earlier than that; and it is never submitted if the ClosedChannel event
\* is observed before the timeout: the handler of the event, run before the
\* timeout, clears the timer, whose callback then never runs.
C18_NoEarlySettlement ==
    Cooperative =>
        /\ closing.timer = "fired" =>
              (closing.firedAt - closing.now >= SETTLEMENT_TIMEOUT /\ settle.by = "timer")
        /\ closing.timer # "fired" => settle.by = "none"
        /\ submitted =>
              (closing.timer = "fired" /\ clock - closing.now >= SETTLEMENT_TIMEOUT)
        /\ (closedAt >= 0 /\ closedAt - closing.now < SETTLEMENT_TIMEOUT) => ~submitted
        /\ (closing.handlerAt >= 0 /\ closing.handlerAt - closing.now < SETTLEMENT_TIMEOUT)
              => closing.timer = "cleared"

\* C18 witness: the ClosedChannel event was observed before the timeout, the
\* timeout has since passed, and no settlement was submitted.
C18_Witness ==
    /\ Cooperative
    /\ closing.handlerAt > closing.now
    /\ closing.handlerAt - closing.now < SETTLEMENT_TIMEOUT
    /\ clock - closing.now >= SETTLEMENT_TIMEOUT
    /\ closing.timer = "cleared" /\ ~submitted

\* C19: in closeChannel on a funded channel whose counterparty holds a more
\* recent transaction and never closes the channel, the node's own latest
\* stored transaction is eventually submitted to the contract's closeChannel
\* (stated for the calls whose timeout falls within the time of the model).
C19_UnilateralSettlement ==
    (Cooperative /\ closing.now + SETTLEMENT_TIMEOUT <= ClockMax)
        ~> (submitted \/ channelState # CHANNEL_STATE_FUNDED)

\* C20: in closeChannel on a funded channel, in the cooperative and in the
\* immediate branch, withdraw is not started before the ClosedChannel event
\* has been observed, the handler of the event stays registered until then,
\* and withdraw is started when the event is observed.
C20_WithdrawOnClosed ==
    /\ []((closing.state = CHANNEL_STATE_FUNDED /\ closing.withdraw)
            => (closedAt >= 0 /\ closing.handlerAt = closedAt))
    /\ []((closing.branch # "none" /\ ~closing.withdraw) => closing.listener)
    /\ [][(closing.branch # "none" /\ eventPending /\ ~eventPending')
            => (closing'.withdraw /\ closedAt' = clock)]_vars

\* C20 witness: on the immediate branch the node's own settlement went
\* through, the event was observed and withdraw started.
C20_Witness ==
    /\ closing.branch = "immediate"
    /\ settle.pc = "resolved"
    /\ closedAt >= 0
    /\ closing.withdraw

\* The uninitialised case of closeChannel was taken.
FoundUninitialized ==
    closing.pc \in {"deleteChannel", "rejected"}
    /\ closing.state = CHANNEL_STATE_UNINITIALIZED

\* The status read of the Channel constructor has settled and found the
\* channel uninitialised.
ConstructorFoundUninitialised ==
    ~sconstructor.status /\ schain.status = "UNINITIALISED"

\* C21: a node that finds the on-chain state of a channel Uninitialised
\* deletes its record of the channel.  closeChannel that reads the state
\* Uninitialised deletes the record before it rejects, and it sets no timer,
\* registers no handler, submits no settlement transaction and starts no
\* withdraw; the read of an uninitialised channel is always followed by
\* deleteChannel.  The status read of a Channel constructor that finds the
\* channel uninitialised calls onClose, whose db.del deletes the record:
\* once it has settled the record is gone.
C21_UninitialisedPrunes ==
    /\ []((closing.pc = "rejected" /\ closing.state = CHANNEL_STATE_UNINITIALIZED)
            => closeRecord = NoCloseRecord)
    /\ [](FoundUninitialized =>
            (~submitted /\ settle = IdleSettle /\ ~closing.withdraw /\ asked = "none"
             /\ closing.timer = "none" /\ ~closing.listener))
    /\ [][(closing.pc = "channels" /\ channelState = CHANNEL_STATE_UNINITIALIZED
            /\ closing'.pc # "channels")
            => closing'.pc = "deleteChannel"]_vars
    /\ [][(sconstructor.status /\ ~sconstructor'.status
            /\ schain.status = "UNINITIALISED")
            => sconstructor'.onClose = sconstructor.onClose + 1]_vars
    /\ [][sconstructor'.onClose < sconstructor.onClose => ~srecord']_vars
    /\ []((ConstructorFoundUninitialised /\ sconstructor.onClose = 0) => ~srecord)

\* C21 witness: closeChannel found a channel the node held a record of
\* uninitialised, deleted the record and rejected; and the constructor of a
\* Channel built from a record found its channel uninitialised, and the
\* db.del of its onClose has deleted the record.
C21_Witness ==
    /\ closing.pc = "rejected"
    /\ closing.state = CHANNEL_STATE_UNINITIALIZED
    /\ closeRecord = NoCloseRecord
    /\ clock > 0
    /\ ConstructorFoundUninitialised
    /\ sconstructor.onClose = 0
    /\ ~srecord

\* C22: when withdraw hands the contract's withdraw to contractCall, it has
\* observed a block whose timestamp is strictly greater than the settle
\* timestamp of the channel: the latest block read at the call, the channel
\* being withdrawable then, or the block of a later newBlockHeaders
\* notification.
C22_WithdrawAfterSettleTimestamp ==
    wd.submitted =>
        /\ wd.observed > wd.settleTimestamp
        /\ wd.observed <= blockTime
        /\ wd.pc = "contractCall" => wd.observed > wchain.settleTimestamp
        /\ \/ wd.path = "atCall" /\ wd.state = CHANNEL_STATE_WITHDRAWABLE
                               /\ wd.observed = wd.blockTimestamp
           \/ wd.path = "newBlock" /\ wd.observed > wd.blockTimestamp

\* C22 witness: the channel was not yet withdrawable at the call; the block
\* at the settle timestamp itself did not release the call, the next one did.
C22_Witness ==
    /\ wd.pc = "contractCall"
    /\ wd.path = "newBlock"
    /\ wd.state = CHANNEL_STATE_WITHDRAWABLE
    /\ wd.blockTimestamp < wd.settleTimestamp
    /\ wd.observed = wd.settleTimestamp + 1

\* withdraw has run to its end: the receipt arrived, the clean-up ran and
\* the balance was read.
WithdrawCompleted == wd.pc = "resolved"

\* The clean-up of withdraw has run: the receipt of the withdraw
\* transaction has arrived.
CleanedUp == wd.pc \in {"onChainBalance", "resolved", "notFound"}

\* C23: after withdraw has completed for a channel, no subscription of the
\* channel that was registered before remains.  this.subscriptions has no
\* entry for the channel once withdraw has completed; the clean-up of
\* withdraw leaves no entry for the channel in either map, whatever was
\* registered before it; and an entry for the channel that appears in
\* this.closingSubscriptions afterwards is not set by withdraw.
C23_NoSubscriptionRemains ==
    /\ [](WithdrawCompleted => toStringHex(wd.id) \notin subscriptions)
    /\ [][(~CleanedUp /\ CleanedUp')
            => /\ toStringHex(wd.id) \notin subscriptions'
               /\ toStringHex(wd.id) \notin closingSubscriptions']_vars
    /\ [][(CleanedUp /\ toStringHex(wd.id) \notin closingSubscriptions
            /\ toStringHex(wd.id) \in closingSubscriptions')
            => wd' = wd]_vars

\* initiateSettlement found the channel open / found its closure pending.
SettlesOpen == ist.status = "OPEN"
SettlesPending == ist.status = "PENDING"

\* C24: in initiateSettlement on an open channel, claimChannelClosure is
\* sent only after initiateChannelClosure has been confirmed and the block
\* time has reached the closure time of the channel, and the record of the
\* channel is deleted only after a claim has been confirmed: by
\* initiateSettlement itself after its own claim, or by the handler of
\* ClosedChannel after the claim of the counterparty.
C24_ClaimAfterClosureTime ==
    /\ []((SettlesOpen /\ ist.claimAt >= 0)
            => (ist.initiated /\ ist.closureTime >= 0
                /\ ist.claimAt >= ist.closureTime))
    /\ []((SettlesOpen /\ ist.pc = "claimChannelClosure" /\ schain.status = "PENDING")
            => sblock >= schain.closureTime)
    /\ []((SettlesOpen /\ ist.pc \in {"onClose", "resolved"}) => ist.claimed)
    /\ [][(SettlesOpen /\ srecord /\ ~srecord')
            => (ist.claimed \/ "claimed" \in byCounterparty)]_vars

\* C24 witness: the call closed the open channel by itself, claimed the
\* closure at the closure time and deleted the record it held.
C24_Witness ==
    /\ SettlesOpen
    /\ ist.pc = "resolved"
    /\ ist.claimed
    /\ ist.claimAt = ist.closureTime
    /\ ~srecord
    /\ byCounterparty = {}
    /\ "constructor" \in slisteners

\* C25: initiateSettlement called on a channel whose closure is pending
\* completes eventually, the closure time being within the time of the
\* model, unless the counterparty acts.
C25_PendingSettlementCompletes ==
    SettlesPending ~> ((ist.pc = "resolved" /\ ~srecord) \/ byCounterparty # {})

\* what the hop has gained when the value of its channel with `sender` goes
\* from `old` to `new`: party A gains as the value rises, party B as it falls
GainOf(sender, old, new) ==
    IF isPartyA(SelfAddress, sender) THEN new - old ELSE old - new

\* C26: getEmbeddedMoney is tx.value - currentValue for party A and
\* currentValue - tx.value for party B, and every transaction the hop
\* accepts, the calls of forwardTransform following one another, moves the
\* value of the channel by what getEmbeddedMoney returned, which is at least
\* RELAY_FEE, in the hop's favour.
C26_EmbeddedMoneyDirection ==
    /\ [](\A t \in Tasks : task[t].pc \in {"setChannel", "transfer"} =>
             /\ task[t].receivedMoney >= RELAY_FEE
             /\ task[t].receivedMoney <= MaxValue)
    /\ [][\A t \in Tasks :
            (task[t].pc = "setChannel" /\ task'[t].pc # "setChannel")
              => LET c == ChannelOf(t)
                 IN  /\ chanRecord'[c].currentValue = task[t].txValue
                     /\ GainOf(task[t].sender, chanRecord[c].currentValue,
                               chanRecord'[c].currentValue) = task[t].receivedMoney
                     /\ GainOf(task[t].sender, chanRecord[c].currentValue,
                               chanRecord'[c].currentValue) >= RELAY_FEE]_vars
    /\ [][\A s \in Senders :
            LET c == getId(SelfAddress, s)
            IN  (chanRecord[c] # NoRecord /\ chanRecord'[c] # NoRecord)
                  => GainOf(s, chanRecord[c].currentValue,
                            chanRecord'[c].currentValue) >= 0]_vars

\* C26 witness: the hop has accepted transactions on both of its channels,
\* on the one as party A and on the other as party B.
C26_Witness ==
    \E t, u \in Tasks :
        /\ Succeeded(t) /\ Succeeded(u)
        /\ isPartyA(SelfAddress, task[t].sender)
        /\ ~isPartyA(SelfAddress, task[u].sender)
        /\ chanRecord[ChannelOf(t)].currentValue > InitialValue(task[t].sender)
        /\ chanRecord[ChannelOf(u)].currentValue < InitialValue(task[u].sender)

\* the transaction of a channel that the search order of the spec names in
\* a store: the latest update, else the restore transaction, else the
\* stashed restore transaction
LastTransactionIn(db, channelId) ==
    IF Transaction(channelId) \in db THEN "tx"
    ELSE IF RestoreTransaction(channelId) \in db THEN "restoreTx"
    ELSE IF StashedRestoreTransaction(channelId) \in db THEN "stashedRestoreTx"
    ELSE "undefined"

ReadsLastTransaction == sop.op \in {"getLastTransaction", "submitSettlementTransaction"}

\* C27: getLastTransaction settles with the latest update transaction if
\* the store holds one, else with the restore transaction, else with the
\* stashed restore transaction; with none of the three it rejects, and
\* submitSettlementTransaction then rejects without handing the contract's
\* closeChannel to contractCall.
C27_LastTransactionOrder ==
    (ReadsLastTransaction /\ sop.pc \in {"fromBuffer", "contractCall", "resolved", "rejected"})
        => /\ sop.found = LastTransactionIn(sop.before, sop.id)
           /\ (sop.found = "undefined" /\ sop.pc # "fromBuffer")
                 => (sop.pc = "rejected" /\ ~sop.closeChannel)
           /\ (sop.found # "undefined" /\ sop.pc # "fromBuffer")
                 => IF sop.op = "getLastTransaction" THEN sop.pc = "resolved"
                    ELSE sop.closeChannel

\* C27 witness: submitSettlementTransaction for a channel of which the
\* store holds the record but none of the three transactions, while it
\* holds transactions of the other channel, has rejected with closeChannel
\* not called.
C27_Witness ==
    /\ sop.op = "submitSettlementTransaction"
    /\ sop.pc = "rejected"
    /\ sop.found = "undefined"
    /\ ~sop.closeChannel
    /\ Index(sop.id) \in store
    /\ \E c \in StoreChannelIds \ {sop.id} :
          {Transaction(c), RestoreTransaction(c), StashedRestoreTransaction(c)} \subseteq store

\* the keys of a channel in the key layout of the spec: the nine keys of
\* its record and its challenge entries
KeysOf(channelId) ==
    ChannelRecordKeys(channelId)
    \cup {k \in store : \E h \in StoreChallenges : k = Challenge(channelId, h)}

\* C28: deleteChannel(channelId) removes every key of the channel from the
\* store, the nine keys of its record and all of its challenge entries, and
\* leaves every other key, the keys of other channels and the packet tags,
\* as it was.
C28_DeleteChannelFrame ==
    [][(sop.op = "deleteChannel" /\ sop.pc = "stream" /\ sop'.pc = "resolved")
        => /\ store' = store \ KeysOf(sop.id)
           /\ \A c \in StoreChannelIds \ {sop.id}, h \in StoreChallenges :
                 /\ (Challenge(c, h) \in store) = (Challenge(c, h) \in store')
                 /\ \A k \in ChannelRecordKeys(c) : (k \in store) = (k \in store')
           /\ \A t \in StoreTags : (PacketTag(t) \in store) = (PacketTag(t) \in store')
           /\ \A h \in StoreChallenges : Challenge(sop.id, h) \notin store'
           /\ ChannelRecordKeys(sop.id) \cap store' = {}]_vars

\* C28 witness: deleteChannel has removed a channel that had its whole
\* record and challenges; the other channel's record and challenges and a
\* packet tag are in the store as before.
C28_Witness ==
    /\ sop.op = "deleteChannel" /\ sop.pc = "resolved"
    /\ ChannelRecordKeys(sop.id) \subseteq sop.before
    /\ \A h \in StoreChallenges : Challenge(sop.id, h) \in sop.before
    /\ \E c \in StoreChannelIds \ {sop.id} :
          /\ ChannelRecordKeys(c) \subseteq store
          /\ \A h \in StoreChallenges : Challenge(c, h) \in store
    /\ \A t \in StoreTags : PacketTag(t) \in store
    /\ store = sop.before \ (ChannelRecordKeys(sop.id)
                              \cup {Challenge(sop.id, h) : h \in StoreChallenges})


\* The step in which the contract opens the channel between the two parties
\* and emits its OpenedChannel event.
OpensTheChannel == chain.status = "FUNDING" /\ chain'.status = "OPEN"

\* C29: a listener that handleOpeningRequest sets up resolves only in the
\* step in which the OpenedChannel event of the channel between the two
\* parties is emitted, never on an event of another channel that its filter
\* lets through; and a party's record comes into being only through that
\* listener having resolved or through the db.put of the party's own create.
C29_RecordAfterOpenedChannel ==
    [][\A n \in Parties :
          /\ opening'[n].fired > opening[n].fired => OpensTheChannel
          /\ (~localChannel[n] /\ localChannel'[n]) =>
                \/ opening[n].fired > 0
                \/ fcall.pc = "db.put" /\ fcall.node = n]_vars

\* A responder's listener has been handed the OpenedChannel event of another
\* channel while the channel is still in funding, and holds no record.
C29_Witness ==
    \E n \in Parties :
        /\ opening[n].skipped > 0
        /\ handler.node = n /\ handler.pc = "yielded"
        /\ chain.status = "FUNDING"
        /\ ~localChannel[n]


\* The step in which generator g is used for the first time.
FirstUse(g) == gen[g].pc = "created" /\ gen'[g].pc # "created"

\* The step in which the upgrade timer runs.
TimerRuns == rtc.webRTCTimeout = "armed" /\ rtc'.webRTCTimeout = "fired"

\* C30: the upgrade timer is set at the first use of sink or source, at the
\* time of that use, and never a second time; it runs no earlier than
\* WEBRTC_UPGRADE_TIMEOUT after it; when it runs on a channel that has
\* never connected, the state is known, WebRTC not available, the switch
\* promise resolved and the destruction of the channel scheduled, which a
\* setImmediate callback then carries out; and as long as the channel does
\* not connect, whatever the generators yield from then on comes from the
\* relayed connection.
C30_UpgradeTimeout ==
    [][/\ rtc'.arms <= 1
       /\ \A g \in Generators :
             (FirstUse(g) /\ rtc.arms = 0) =>
                 /\ rtc'.webRTCTimeout = "armed"
                 /\ rtc'.armedAt = rtcClock
       /\ rtc'.arms # rtc.arms => \E g \in Generators : FirstUse(g)
       /\ TimerRuns => rtcClock - rtc.armedAt >= WEBRTC_UPGRADE_TIMEOUT
       /\ (TimerRuns /\ ~peer.connected) =>
             /\ rtc'.webRTCStateKnown /\ ~rtc'.webRTCAvailable
             /\ rtc'.switchPromise = "resolved"
             /\ peer'.immediates > 0
       /\ rtc'.webRTCTimeout = "fired" =>
             (peer'.immediates > 0 \/ peer'.state = "destroyed")
       /\ peer'.immediates < peer.immediates => peer'.state = "destroyed"
       /\ \A g \in Generators :
             (rtc.webRTCTimeout = "fired" /\ ~peer'.connected /\ outp'[g] # outp[g]) =>
                 /\ ~rtc'.webRTCAvailable
                 /\ outp'[g][Len(outp'[g])][2] = "relayed"]_vars

\* Both generators are in use, the timer has been set once and has run,
\* the channel has neither connected nor reported an error and is
\* destroyed, and source has gone on to yield the relayed connection's
\* messages.
C30_Witness ==
    /\ rtc.arms = 1 /\ rtc.webRTCTimeout = "fired"
    /\ ~peer.connected /\ peer.errors = 0 /\ peer.iceTimeouts = 0
    /\ peer.state = "destroyed"
    /\ rtc.webRTCStateKnown /\ ~rtc.webRTCAvailable
    /\ gen["sink"].pc \notin {"none", "created"}
    /\ gen["source"].pc = "yield*" /\ outp["source"] = <<<<1, "relayed">>>>


\* C31: when the transfer of createPacket or of forwardTransform at a hop
\* that is not the destination has failed, the caller's callback has been
\* called exactly once, with the error; the packet has not left the peer.
C31_TransferFailureCallsBack ==
    pkt.pc = "transfer failed" =>
        /\ pkt.cbCalls = 1
        /\ pkt.cbErr = pkt.err


\* C32: the nonces handed to sendTransaction by concurrent calls of
\* contractCall are consecutive, hence pairwise distinct; every call that has
\* reached sendTransaction has sent one of them, no two calls the same, and
\* this.nonce is the one after the last.
C32_NoncesDistinctConsecutive ==
    /\ \A i \in 1..(Len(sent) - 1) : sent[i + 1] = sent[i] + 1
    /\ sent # <<>> => thisNonce = sent[Len(sent)] + 1
    /\ \A c \in ContractCalls :
          ccall[c].nonce # -1 => \E i \in 1..Len(sent) : sent[i] = ccall[c].nonce
    /\ \A c, d \in ContractCalls :
          (c # d /\ ccall[c].nonce # -1) => ccall[c].nonce # ccall[d].nonce
    /\ Cardinality({c \in ContractCalls : ccall[c].nonce # -1}) = Len(sent)

\* Every call has reached sendTransaction, the call made last not being the
\* last to do so.
C32_Witness ==
    /\ Len(sent) = NumContractCalls
    /\ \A c \in ContractCalls : ccall[c].pc \in {"sendTransaction", "receipt", "rejected"}
    /\ ccall[NumContractCalls].nonce < ccall[1].nonce


\* C33: when the db.get of the channel's on-chain balance that ends withdraw
\* settles, the batch of the deleteChannel that withdraw has called is not
\* yet written, and withdraw resolves with the balance.
C33_BalanceReadBeforeDeletion ==
    [][(wd.pc = "onChainBalance" /\ wd'.pc # "onChainBalance") =>
          (wd.deleting /\ wd'.pc = "resolved")]_vars


\* the sum of the amounts the closes of the channels of S have returned
RECURSIVE SumOfCloses(_)
SumOfCloses(S) ==
    IF S = {} THEN 0
    ELSE LET c == CHOOSE d \in S : TRUE
         IN  closes[c].amount + SumOfCloses(S \ {c})

\* C34: when closeChannels has resolved, there having been channels with a
\* restore transaction in the store when it was called, closeChannel has
\* resolved for every one of them, and the result is the sum of the amounts
\* these calls have returned.
C34_CloseChannelsAwaitsAll ==
    (cls.pc = "resolved" /\ cls.keys # {}) =>
        /\ \A c \in cls.keys : closes[c].state = "resolved"
        /\ cls.result = [kind |-> "amount", amount |-> SumOfCloses(cls.keys)]


\* C35: an isOpen call both of whose reads were served while create at the
\* same party had openChannel confirmed and the record not yet written does
\* not fail with the error of a channel that exists on-chain but not
\* off-chain.
C35_NoDivergenceWhileOpening ==
    (concurrent.onChainWhileOpening /\ concurrent.offChainWhileOpening) =>
        ~(concurrent.pc = "threw" /\ concurrent.err = "exists on-chain but not off-chain")

\* C36: the outcome of the upgrade is final.  Once _webRTCStateKnown is true
\* no step changes _webRTCAvailable, whatever the order of 'connect',
\* 'error', 'iceTimeout' and the timer, and no step destroys a channel that
\* has connected.
C36_UpgradeOutcomeFinal ==
    [][/\ rtc.webRTCStateKnown => rtc'.webRTCAvailable = rtc.webRTCAvailable
       /\ (peer.connected /\ peer.state # "destroyed") => peer'.state # "destroyed"]_vars

\* the messages generator g has delivered out of the stream it reads
Delivered(g) ==
    SelectSeq(outp[g], LAMBDA e : e[1] # Undefined /\ (g = "sink" \/ e[2] = "relayed"))

\* Generator g holds a message of its stream, asked for before the outcome
\* of the upgrade was known, and has left the loop that yields messages.
LostAtSwitch(g) ==
    /\ gen[g].held /\ ~gen[g].askedKnown
    /\ gen[g].pc \in {"awaitSwitch", "yield* channel", "done"}

\* C37: no message is lost at the switch to WebRTC.  A message asked of the
\* relayed connection's source (in source) or of the caller's stream (in
\* sink) before the outcome was known is not left undelivered by a
\* generator that has left its loop, and no message is delivered twice.
C37_NoMessageLostAtSwitch ==
    \A g \in Generators :
        /\ ~LostAtSwitch(g)
        /\ \A i, j \in 1..Len(Delivered(g)) :
               Delivered(g)[i][1] = Delivered(g)[j][1] => i = j

\* C38: in fallback mode, the outcome known and WebRTC not available, source
\* yields the messages of the relayed connection once each and in the order
\* of the stream, and yields nothing after the stream's last message.
C38_FallbackYieldsOnceInOrder ==
    (rtc.webRTCStateKnown /\ ~rtc.webRTCAvailable) =>
        \A i, j \in 1..Len(Delivered("source")) :
            i < j => Delivered("source")[i][1] < Delivered("source")[j][1]

\* C39: close is idempotent.  Once close() has been called destroyed is
\* true, and the calls of close together have destroyed the WebRTC channel
\* at most once and closed the relayed connection at most once.
C39_CloseIdempotent ==
    rtcClose.calls >= 1 =>
        /\ destroyed(rtcClose)
        /\ rtcClose.channelDestroy <= 1
        /\ rtcClose.connClose <= 1

====
